---------------------------- MODULE Spec2Model ----------------------------
(***************************************************************************)
(* Wire-format codec core of protobuf-rs: the three Writer implementations *)
(* (fork / ldelim back-patching) and the Reader implementations (cursor,   *)
(* bounds checks, skipping by wire type).                                  *)
(*                                                                         *)
(*   WA_*  src/src/writer.rs        Writer      one placeholder byte       *)
(*   WB_*  src/src/rust/writer.rs   Writer      5 reserved bytes + stack   *)
(*   WC_*  src/rust/src/writer.rs   WriterImpl  saved-buffer stack         *)
(*   WL_*  src/rust/src/lib.rs      Writer      napi wrapper of WriterImpl *)
(*                                                                         *)
(* A byte is a number 0..255; a buffer is a sequence of bytes; a Rust      *)
(* String is the sequence of its UTF-8 bytes.  Buffer offsets are 0-based  *)
(* as in the source, sequence indices 1-based.  usize is 64 bits wide.     *)
(*                                                                         *)
(* WriterSpec drives the three writers in lockstep; ReaderSpec drives one  *)
(* reader of one implementation over one buffer; PoolSpec runs acquire(),  *)
(* metrics() and the drop of PooledBuffer of src/src/pool.rs on several    *)
(* threads; SizeClassSpec applies size_class and class_to_size to a size;  *)
(* CodecSpec calls the free functions of src/src/lib.rs and simd.rs, and   *)
(* Writer::tag and Encoder::encode_tag, on values and on one byte buffer   *)
(* that a Reader of src/src/reader.rs reads as well; ParallelSpec runs     *)
(* process_u32_batch_parallel of src/src/parallel.rs chunk by chunk in any *)
(* order; LoopSpec steps through the loops of ReaderImpl and of the batch  *)
(* decoder one iteration at a time, with a stack of StackFrames frames.    *)
(***************************************************************************)
EXTENDS Integers, Sequences, FiniteSets, TLC

VARIABLES
    buf,        \* writers: buf.A, buf.B, buf.C are the three byte buffers
    marksA,     \* the marks returned by WA fork() that the caller still holds
    stackB,     \* WB: Writer.stack (fork positions)
    statesC,    \* WC: WriterImpl.states (saved State {len, buf})
    ret,        \* writers: what the last call returned, per implementation
    hist,       \* the calls made on the writers since construction
    rimpl,      \* readers: the implementation the reader under test is of
    rbuf,       \* readers: the buffer the reader was constructed on
    rpos,       \* readers: the cursor (pos / position / cursor.position())
    rret,       \* readers: the last call, its result and the bytes it read
    ppools,     \* pool: BufferPool.pools, the free list of each size class
    pmax,       \* pool: BufferPool.max_pool_size
    pmetrics,   \* pool: the PoolMetrics behind BufferPool.metrics
    pmlock,     \* pool: the thread that holds the metrics Mutex, or Free
    pplock,     \* pool: per size class, the thread that holds its Mutex, or Free
    pthr,       \* pool: where each thread is in acquire() or drop(), and its locals
    phandles,   \* pool: the PooledBuffers each thread holds
    psolo,      \* pool: the operations completed last by one thread on its own
    sc,         \* BufferPool::size_class / class_to_size: the last call and result
    cd,         \* free functions, Writer::tag, Encoder::encode_tag: the calls made
    par,        \* process_u32_batch_parallel: the call, its chunks and their results
    lp          \* a reader call that is running: its cursor, loop state and frames

wvars == <<buf, marksA, stackB, statesC, ret, hist>>

rvars == <<rimpl, rbuf, rpos, rret>>

pvars == <<ppools, pmax, pmetrics, pmlock, pplock, pthr, phandles, psolo>>

vars == <<buf, marksA, stackB, statesC, ret, hist, rimpl, rbuf, rpos, rret,
          ppools, pmax, pmetrics, pmlock, pplock, pthr, phandles, psolo, sc, cd,
          par, lp>>

\* What the steps of one component leave alone.
notw == <<rvars, pvars, sc, cd, par, lp>>

notr == <<wvars, pvars, sc, cd, par, lp>>

notp == <<wvars, rvars, sc, cd, par, lp>>

notsc == <<wvars, rvars, pvars, cd, par, lp>>

notcd == <<wvars, rvars, pvars, sc, par, lp>>

notpar == <<wvars, rvars, pvars, sc, cd, lp>>

notlp == <<wvars, rvars, pvars, sc, cd, par>>

-----------------------------------------------------------------------------
(* Bounds of the model.                                                    *)

\* Calls made on the writers in one behaviour before the finish() that ends it.
MaxOps == 6

\* Write calls (uint32, string, bytes) among them.
MaxWrites == 2

\* reset() calls among them.
MaxResets == 1

\* Forks open at the same time.
MaxDepth == 2

-----------------------------------------------------------------------------
(* Helpers.                                                                *)

Impls == {"A", "B", "C"}

Zeros(n) == [i \in 1..n |-> 0]

Fill(n, b) == [i \in 1..n |-> b]

Last(s) == s[Len(s)]

Front(s) == SubSeq(s, 1, Len(s) - 1)

\* slice::copy_within(src_start..src_end, dest) with 0-based offsets.
CopyWithin(b, srcStart, srcEnd, dest) ==
    [i \in 1..Len(b) |->
        IF i - 1 >= dest /\ i - 1 < dest + (srcEnd - srcStart)
        THEN b[srcStart + (i - 1 - dest) + 1]
        ELSE b[i]]

-----------------------------------------------------------------------------
(* src/src/writer.rs                                                       *)

RECURSIVE WA_uint32(_, _)
WA_uint32(buffer, n) ==
    LET byte == n % 128
        rest == n \div 128
    IN  IF rest # 0
        THEN WA_uint32(Append(buffer, byte + 128), rest)
        ELSE Append(buffer, byte)

WA_bytes(buffer, value) == WA_uint32(buffer, Len(value)) \o value

WA_string(buffer, value) == WA_uint32(buffer, Len(value)) \o value

\* fork(): the returned mark is the length before the placeholder byte.
WA_fork(buffer) == [buffer |-> Append(buffer, 0), pos |-> Len(buffer)]

\* The varint loop inside ldelim().
RECURSIVE WA_len_bytes(_)
WA_len_bytes(n) ==
    LET byte == n % 128
        rest == n \div 128
    IN  IF rest # 0 THEN <<byte + 128>> \o WA_len_bytes(rest) ELSE <<byte>>

\* WA_ldelim_ok with a fault: the content is not shifted when the length needs
\* more than the placeholder byte.
WA_ldelim_ok_noshift(buffer, fork_pos) ==
    LET current_len == Len(buffer)
        msg_len     == current_len - fork_pos - 1
        len_bytes   == WA_len_bytes(msg_len)
        extra       == Len(len_bytes) - 1
        resized     == IF Len(len_bytes) > 1 THEN buffer \o Zeros(extra) ELSE buffer
    IN  [i \in 1..Len(resized) |->
            IF i - 1 >= fork_pos /\ i - 1 < fork_pos + Len(len_bytes)
            THEN len_bytes[i - fork_pos]
            ELSE resized[i]]

\* ldelim(fork_pos) for fork_pos < buffer.len(): always Ok(()).
WA_ldelim_ok(buffer, fork_pos) ==
    LET current_len == Len(buffer)
        msg_len     == current_len - fork_pos - 1
        len_bytes   == WA_len_bytes(msg_len)
        extra       == Len(len_bytes) - 1
        shifted     == IF Len(len_bytes) > 1
                       THEN CopyWithin(buffer \o Zeros(extra), fork_pos + 1,
                                       current_len, fork_pos + Len(len_bytes))
                       ELSE buffer
    IN  [i \in 1..Len(shifted) |->
            IF i - 1 >= fork_pos /\ i - 1 < fork_pos + Len(len_bytes)
            THEN len_bytes[i - fork_pos]
            ELSE shifted[i]]

\* ldelim(fork_pos): the outcomes a build can produce.  For
\* fork_pos >= buffer.len() the subtraction current_len - fork_pos - 1
\* underflows: a debug build panics there (buffer untouched); a release build
\* wraps, resizes the buffer by the 4 extra bytes of a 5-byte length and then
\* panics in copy_within (range start > end).
WA_ldelim(buffer, fork_pos) ==
    IF fork_pos + 1 <= Len(buffer)
    THEN {[buffer |-> WA_ldelim_ok(buffer, fork_pos), st |-> "ok"]}
    ELSE {[buffer |-> buffer, st |-> "panic"],
          [buffer |-> buffer \o Zeros(4), st |-> "panic"]}

WA_finish(buffer) == buffer

WA_reset(buffer) == << >>

-----------------------------------------------------------------------------
(* src/src/rust/writer.rs                                                  *)

RECURSIVE WB_write_varint_internal(_, _)
WB_write_varint_internal(buffer, value) ==
    LET byte == value % 128
        rest == value \div 128
    IN  IF rest # 0
        THEN WB_write_varint_internal(Append(buffer, byte + 128), rest)
        ELSE Append(buffer, byte)

WB_uint32(buffer, value) == WB_write_varint_internal(buffer, value)

WB_bytes(buffer, value) == WB_write_varint_internal(buffer, Len(value)) \o value

WB_string(buffer, value) == WB_write_varint_internal(buffer, Len(value)) \o value

WB_fork(buffer, stack) ==
    [buffer |-> buffer \o <<0, 0, 0, 0, 0>>,
     stack  |-> Append(stack, Len(buffer)),
     pos    |-> Len(buffer)]

\* The varint loop inside ldelim().
RECURSIVE WB_length_bytes(_)
WB_length_bytes(len) ==
    LET byte == len % 128
        rest == len \div 128
    IN  IF rest # 0 THEN <<byte + 128>> \o WB_length_bytes(rest) ELSE <<byte>>

\* WB_ldelim with a fault: the 5 reserved bytes are counted into the length.
WB_ldelim_counts_reserved(buffer, stack) ==
    IF stack = << >>
    THEN [buffer |-> buffer, stack |-> stack, st |-> "No fork to delimit"]
    ELSE LET fork_pos     == Last(stack)
             current_pos  == Len(buffer)
             length       == current_pos - fork_pos
             length_bytes == WB_length_bytes(length)
             data         == SubSeq(buffer, fork_pos + 5 + 1, current_pos)
         IN  [buffer |-> SubSeq(buffer, 1, fork_pos) \o length_bytes \o data,
              stack  |-> Front(stack),
              st     |-> "ok"]

WB_ldelim(buffer, stack) ==
    IF stack = << >>
    THEN [buffer |-> buffer, stack |-> stack, st |-> "No fork to delimit"]
    ELSE LET fork_pos     == Last(stack)
             current_pos  == Len(buffer)
             length       == current_pos - fork_pos - 5
             length_bytes == WB_length_bytes(length)
             data_start   == fork_pos + 5
             data         == SubSeq(buffer, data_start + 1, current_pos)
         IN  IF Len(length_bytes) > 5
             THEN [buffer |-> buffer, stack |-> Front(stack),
                   st |-> "Length too large"]
             ELSE [buffer |-> SubSeq(buffer, 1, fork_pos) \o length_bytes \o data,
                   stack  |-> Front(stack),
                   st     |-> "ok"]

WB_finish(buffer) == buffer

WB_reset(buffer, stack) == [buffer |-> << >>, stack |-> << >>]

-----------------------------------------------------------------------------
(* src/rust/src/writer.rs (WriterImpl) and its wrapper in src/rust/src/lib.rs *)

RECURSIVE WC_write_varint32(_, _)
WC_write_varint32(b, value) ==
    IF value >= 128
    THEN WC_write_varint32(Append(b, (value % 128) + 128), value \div 128)
    ELSE Append(b, value)

WC_write_bytes(b, data) == b \o data

WC_fork(b, states) ==
    [buf    |-> << >>,
     states |-> Append(states, [len |-> Len(b), buf |-> b])]

WC_reset(b, states) ==
    IF states # << >>
    THEN [buf |-> Last(states).buf, states |-> Front(states)]
    ELSE [buf |-> << >>, states |-> states]

\* ldelim with a fault: the length written is the saved length of the
\* parent, State.len, and not the length of the section.
WC_ldelim_parent_len(b, states) ==
    LET fork_len  == IF states # << >> THEN Last(states).len ELSE Len(b)
        fork_data == b
        parent    == WC_reset(b, states)
        withLen   == WC_write_varint32(parent.buf, fork_len)
    IN  [buf    |-> IF Len(b) > 0 THEN withLen \o fork_data ELSE withLen,
         states |-> parent.states]

WC_ldelim(b, states) ==
    LET fork_len  == Len(b)
        fork_data == b
        parent    == WC_reset(b, states)
        withLen   == WC_write_varint32(parent.buf, fork_len)
    IN  [buf    |-> IF fork_len > 0 THEN withLen \o fork_data ELSE withLen,
         states |-> parent.states]

\* finish(): std::mem::take leaves an empty buffer behind.
WC_finish(b) == [out |-> b, buf |-> << >>]

WL_uint32(b, value) == WC_write_varint32(b, value)

WL_bytes(b, value) == WC_write_bytes(b, value)

WL_string(b, value) == WC_write_bytes(WC_write_varint32(b, Len(value)), value)

\* u32::to_le_bytes, u64::to_le_bytes: n bytes, the lowest first.
to_le_bytes(value, n) == [i \in 1..n |-> (value \div (256 ^ (i - 1))) % 256]

WA_fixed32(buffer, value) == buffer \o to_le_bytes(value, 4)

WB_fixed32(buffer, value) == buffer \o to_le_bytes(value, 4)

WC_write_fixed32(b, value) == b \o to_le_bytes(value, 4)

WL_fixed32(b, value) == WC_write_fixed32(b, value)


-----------------------------------------------------------------------------
(* Inputs of the writer calls.                                             *)

U32Vals == {1}

\* string() arguments: "a" n times (one UTF-8 byte each).
Text(n) == Fill(n, 97)

\* Their lengths.  string() appends 3 bytes for 2; 127 and 128 bytes for 126
\* and 127, the longest content with a one-byte length and the shortest with a
\* two-byte length; 16384 bytes for HugeLen, the shortest content with a
\* three-byte length.
HugeLen == 16382

WStrLens == {2, 126, 127, HugeLen}

\* bytes() argument: two bytes that are not UTF-8 text.
WBytesVals == {<<255, 0>>}

\* fixed32() argument: 0x00345678.
Fixed32Vals == {3430008}

WriteOps == {"uint32", "string", "bytes", "fixed32"}

IsWrite(c) == c.op \in WriteOps

NumCalls(ops) == Cardinality({i \in 1..Len(hist) : hist[i].op \in ops})

CanCall == Len(hist) < MaxOps /\ NumCalls({"finish"}) = 0

\* A behaviour that writes the string of HugeLen bytes makes no other write, and no fork or reset
\* after it: only ldelim and finish follow.
HugeWritten == \E i \in 1..Len(hist) : hist[i].op = "string" /\ hist[i].v = HugeLen

CanWrite ==
    /\ CanCall
    /\ NumCalls(WriteOps) < MaxWrites
    /\ ~HugeWritten

\* The strings of 126 and 127 bytes are written only as the first write of a
\* behaviour, directly after a fork; the string of HugeLen bytes only directly
\* after a fork that is the first call, or the second after one write.
CanWriteStr(n) ==
    /\ (n > 2) => (hist # << >> /\ Last(hist).op = "fork")
    /\ (n > 2 /\ n # HugeLen) => (NumCalls(WriteOps) = 0)
    /\ (n = HugeLen) => (/\ Len(hist) <= 2
                         /\ \A i \in 1..(Len(hist) - 1) : IsWrite(hist[i]))

Call(op, v, s) == [op |-> op, v |-> v, s |-> s]

Ok == [st |-> "ok", out |-> << >>]

AllOk == [X \in Impls |-> Ok]

-----------------------------------------------------------------------------
(* The writers.  One call is made on the three implementations at once.    *)

\* The writers as constructed.
WIdle ==
    /\ buf = [X \in Impls |-> << >>]
    /\ marksA = << >>
    /\ stackB = << >>
    /\ statesC = << >>
    /\ ret = AllOk
    /\ hist = << >>

\* The record of a reader call: the operation and its argument, the status
\* and value it returned, the cursor before it, and hi, one more than the
\* highest buffer index it read (0 when it read none).
RCall(op, arg, pre, r) ==
    [op |-> op, arg |-> arg, st |-> r.st, val |-> r.val, pre |-> pre, hi |-> r.hi]

NoCall == [op |-> "new", arg |-> 0, st |-> "ok", val |-> << >>, pre |-> 0, hi |-> 0]

\* No reader has been constructed.
RIdle ==
    /\ rimpl = "none"
    /\ rbuf = << >>
    /\ rpos = 0
    /\ rret = NoCall

\* The threads that use the pool.
PThreads == {1, 2}

\* let num_classes = 10
NumClasses == 10

Classes == 0..(NumClasses - 1)

Free == 0

\* A Vec<u8> as far as the pool is concerned: its length and capacity, and
\* which allocation it is (the heap block it owns), 0 for none.
Vec(len, cap) == [len |-> len, cap |-> cap, id |-> 0]

NoVec == Vec(0, 0)

\* A thread that is in neither acquire() nor drop().
IdleThread ==
    [pc |-> "idle", min_size |-> 0, size_class |-> 0, buffer |-> NoVec, latest |-> FALSE]

\* PoolMetrics::default()
DefaultMetrics == [hits |-> 0, misses |-> 0, total_acquired |-> 0, current_pooled |-> 0]

NoSolo == [owner |-> Free, ops |-> << >>]

\* A pool nobody has used, of a given max_pool_size.
PNew(max_pool_size) ==
    /\ ppools = [c \in Classes |-> << >>]
    /\ pmax = max_pool_size
    /\ pmetrics = DefaultMetrics
    /\ pmlock = Free
    /\ pplock = [c \in Classes |-> Free]
    /\ pthr = [t \in PThreads |-> IdleThread]
    /\ phandles = [t \in PThreads |-> << >>]
    /\ psolo = NoSolo

PIdle == PNew(0)

NoSizeCall == [size |-> 0, class |-> 0, actual |-> 0, called |-> "none"]

SCIdle == sc = NoSizeCall

\* No free function has been called.
CDIdle == cd = << >>

\* process_u32_batch_parallel has not been called.
NoBatch ==
    [pc |-> "idle", values |-> << >>, chunk_size |-> << >>, chunks |-> << >>,
     results |-> << >>, order |-> << >>, st |-> "ok", out |-> << >>]

PPIdle == par = NoBatch

\* No reader call is running.
NoLoop ==
    [pc |-> "idle", op |-> "none", arg |-> 0, buf |-> << >>, start |-> 0, pos |-> 0,
     reads |-> 0, shift |-> 0, k |-> 0, depth |-> 0, st |-> "ok"]

LPIdle == lp = NoLoop

WInit ==
    /\ WIdle
    /\ RIdle
    /\ PIdle
    /\ SCIdle
    /\ CDIdle
    /\ PPIdle
    /\ LPIdle

W_uint32 ==
    \E v \in U32Vals :
        /\ CanWrite
        /\ buf' = [A |-> WA_uint32(buf.A, v),
                   B |-> WB_uint32(buf.B, v),
                   C |-> WL_uint32(buf.C, v)]
        /\ ret' = AllOk
        /\ hist' = Append(hist, Call("uint32", v, << >>))
        /\ UNCHANGED <<marksA, stackB, statesC>>
        /\ UNCHANGED notw

W_string ==
    \E n \in WStrLens :
        /\ CanWrite
        /\ CanWriteStr(n)
        /\ LET s == Text(n)
           IN  /\ buf' = [A |-> WA_string(buf.A, s),
                          B |-> WB_string(buf.B, s),
                          C |-> WL_string(buf.C, s)]
               /\ hist' = Append(hist, Call("string", n, s))
        /\ ret' = AllOk
        /\ UNCHANGED <<marksA, stackB, statesC>>
        /\ UNCHANGED notw

W_bytes ==
    \E b \in WBytesVals :
        /\ CanWrite
        /\ buf' = [A |-> WA_bytes(buf.A, b),
                   B |-> WB_bytes(buf.B, b),
                   C |-> WL_bytes(buf.C, b)]
        /\ ret' = AllOk
        /\ hist' = Append(hist, Call("bytes", Len(b), b))
        /\ UNCHANGED <<marksA, stackB, statesC>>
        /\ UNCHANGED notw

W_fixed32 ==
    \E v \in Fixed32Vals :
        /\ CanWrite
        /\ buf' = [A |-> WA_fixed32(buf.A, v),
                   B |-> WB_fixed32(buf.B, v),
                   C |-> WL_fixed32(buf.C, v)]
        /\ ret' = AllOk
        /\ hist' = Append(hist, Call("fixed32", v, << >>))
        /\ UNCHANGED <<marksA, stackB, statesC>>
        /\ UNCHANGED notw

W_fork ==
    /\ CanCall
    /\ ~HugeWritten
    /\ Len(stackB) < MaxDepth
    /\ LET a == WA_fork(buf.A)
           b == WB_fork(buf.B, stackB)
           c == WC_fork(buf.C, statesC)
       IN  /\ buf' = [A |-> a.buffer, B |-> b.buffer, C |-> c.buf]
           /\ marksA' = Append(marksA, a.pos)
           /\ stackB' = b.stack
           /\ statesC' = c.states
    /\ ret' = AllOk
    /\ hist' = Append(hist, Call("fork", 0, << >>))
    /\ UNCHANGED notw

\* What a caller of WA ldelim(fork_pos) passes when it holds no mark: 0, the
\* mark of a fork made on an empty writer.
StaleMarks == {0}

\* ldelim.  WA takes the mark of the fork it closes from its caller, who
\* passes the one it got last.
W_ldelim ==
    /\ CanCall
    /\ \E fork_pos \in (IF marksA # << >> THEN {Last(marksA)} ELSE StaleMarks) :
       \E a \in WA_ldelim(buf.A, fork_pos) :
          LET b == WB_ldelim(buf.B, stackB)
              c == WC_ldelim(buf.C, statesC)
          IN  /\ buf' = [A |-> a.buffer, B |-> b.buffer, C |-> c.buf]
              /\ marksA' = IF marksA # << >> THEN Front(marksA) ELSE marksA
              /\ stackB' = b.stack
              /\ statesC' = c.states
              /\ ret' = [A |-> [st |-> a.st, out |-> << >>],
                         B |-> [st |-> b.st, out |-> << >>],
                         C |-> Ok]
    /\ hist' = Append(hist, Call("ldelim", 0, << >>))
    /\ UNCHANGED notw

W_reset ==
    /\ CanCall
    /\ NumCalls({"reset"}) < MaxResets
    /\ ~HugeWritten
    /\ LET b == WB_reset(buf.B, stackB)
           c == WC_reset(buf.C, statesC)
       IN  /\ buf' = [A |-> WA_reset(buf.A), B |-> b.buffer, C |-> c.buf]
           /\ marksA' = << >>
           /\ stackB' = b.stack
           /\ statesC' = c.states
    /\ ret' = AllOk
    /\ hist' = Append(hist, Call("reset", 0, << >>))
    /\ UNCHANGED notw

W_finish ==
    /\ NumCalls({"finish"}) = 0
    /\ LET c == WC_finish(buf.C)
       IN  /\ buf' = [buf EXCEPT !.C = c.buf]
           /\ ret' = [A |-> [st |-> "ok", out |-> WA_finish(buf.A)],
                      B |-> [st |-> "ok", out |-> WB_finish(buf.B)],
                      C |-> [st |-> "ok", out |-> c.out]]
    /\ hist' = Append(hist, Call("finish", 0, << >>))
    /\ UNCHANGED <<marksA, stackB, statesC>>
    /\ UNCHANGED notw

WNext ==
    \/ W_uint32
    \/ W_string
    \/ W_bytes
    \/ W_fixed32
    \/ W_fork
    \/ W_ldelim
    \/ W_reset
    \/ W_finish

WriterSpec == WInit /\ [][WNext]_vars


-----------------------------------------------------------------------------
(* Reference definitions used by the properties of the writers.            *)

\* Number of 7-bit groups of the canonical varint of n.
RECURSIVE VarintSize(_)
VarintSize(n) == IF n < 128 THEN 1 ELSE 1 + VarintSize(n \div 128)

Pow128(k) == IF k = 0 THEN 1 ELSE IF k = 1 THEN 128 ELSE IF k = 2 THEN 16384 ELSE 2097152

\* The canonical varint of n (n < 2^28): group i holds bits 7(i-1)..7i-1, with
\* the high bit set on every group but the last.
VarintRef(n) ==
    LET k == VarintSize(n)
    IN  [i \in 1..k |-> ((n \div Pow128(i - 1)) % 128) + (IF i < k THEN 128 ELSE 0)]

\* The bytes a write call appends in implementation X.
Appended(X, c) ==
    CASE c.op = "uint32" ->
            (CASE X = "A" -> WA_uint32(<< >>, c.v)
               [] X = "B" -> WB_uint32(<< >>, c.v)
               [] X = "C" -> WL_uint32(<< >>, c.v))
      [] c.op = "string" ->
            (CASE X = "A" -> WA_string(<< >>, c.s)
               [] X = "B" -> WB_string(<< >>, c.s)
               [] X = "C" -> WL_string(<< >>, c.s))
      [] c.op = "bytes" ->
            (CASE X = "A" -> WA_bytes(<< >>, c.s)
               [] X = "B" -> WB_bytes(<< >>, c.s)
               [] X = "C" -> WL_bytes(<< >>, c.s))
      [] c.op = "fixed32" ->
            (CASE X = "A" -> WA_fixed32(<< >>, c.v)
               [] X = "B" -> WB_fixed32(<< >>, c.v)
               [] X = "C" -> WL_fixed32(<< >>, c.v))

RECURSIVE AppendedAll(_, _)
AppendedAll(X, calls) ==
    IF calls = << >> THEN << >>
    ELSE Appended(X, Head(calls)) \o AppendedAll(X, Tail(calls))

\* The recursive length-delimited encoding of a sequence of write, fork and
\* ldelim calls: a stack of section contents, the innermost last; ldelim
\* closes the innermost section as varint(n) followed by its n bytes.
RECURSIVE RefSections(_, _, _)
RefSections(X, calls, sections) ==
    IF calls = << >> THEN sections
    ELSE LET c == Head(calls)
             n == Len(sections)
         IN  CASE c.op = "fork" ->
                    RefSections(X, Tail(calls), Append(sections, << >>))
               [] c.op = "ldelim" ->
                    RefSections(X, Tail(calls),
                        Append(SubSeq(sections, 1, n - 2),
                               sections[n - 1] \o VarintRef(Len(sections[n]))
                                               \o sections[n]))
               [] OTHER ->
                    RefSections(X, Tail(calls),
                        Append(Front(sections), Last(sections) \o Appended(X, c)))

\* Forks open after the calls, or -1 when a call is not a write, fork or
\* ldelim, or an ldelim has no fork to close.
RECURSIVE Nesting(_, _)
Nesting(calls, depth) ==
    IF calls = << >> THEN depth
    ELSE LET c == Head(calls)
         IN  CASE c.op = "fork" -> Nesting(Tail(calls), depth + 1)
               [] c.op = "ldelim" ->
                    IF depth = 0 THEN -1 ELSE Nesting(Tail(calls), depth - 1)
               [] IsWrite(c) -> Nesting(Tail(calls), depth)
               [] OTHER -> -1

WellNested(calls) == Nesting(calls, 0) = 0

-----------------------------------------------------------------------------
(* Properties of the writers.                                              *)

\* C1: fork(), writes appending content C, ldelim(), finish() on a writer
\* holding P returns P ++ varint(|C|) ++ C in each implementation.
C1_ForkLdelimFinish ==
    LET n == Len(hist)
    IN  (n >= 3 /\ hist[n].op = "finish" /\ hist[n - 1].op = "ldelim") =>
        \A k \in 1..(n - 2) :
            (/\ hist[k].op = "fork"
             /\ \A j \in (1..(n - 2)) \ {k} : IsWrite(hist[j])) =>
            \A X \in Impls :
                LET P == AppendedAll(X, SubSeq(hist, 1, k - 1))
                    C == AppendedAll(X, SubSeq(hist, k + 1, n - 2))
                IN  /\ ret[X].st = "ok"
                    /\ ret[X].out = P \o VarintRef(Len(C)) \o C

\* C1 witness: after one write, fork, the string of HugeLen bytes, ldelim and
\* finish, the bytes returned hold a three-byte length after P.
C1_Witness ==
    /\ Len(hist) = 5
    /\ IsWrite(hist[1])
    /\ hist[2].op = "fork"
    /\ hist[3].op = "string" /\ hist[3].v = HugeLen
    /\ hist[4].op = "ldelim"
    /\ hist[5].op = "finish"
    /\ \A X \in Impls :
         Len(ret[X].out) = Len(Appended(X, hist[1])) + 3 + Len(Appended(X, hist[3]))

\* C2: finish() after a well-nested sequence of fork, write and ldelim calls
\* returns the recursive length-delimited encoding of the sequence.
C2_NestedEncoding ==
    (hist # << >> /\ Last(hist).op = "finish" /\ WellNested(Front(hist))) =>
        \A X \in Impls :
            ret[X].out = RefSections(X, Front(hist), << << >> >>)[1]

\* C2 witness: fork, write, fork, write, ldelim, ldelim, finish; the inner
\* section is 1 byte long and the outer one 3 (its own byte and the inner
\* section with its length).
C2_Witness ==
    /\ Len(hist) = 7
    /\ hist[1].op = "fork" /\ hist[2].op = "uint32" /\ hist[3].op = "fork"
    /\ hist[4].op = "uint32" /\ hist[5].op = "ldelim" /\ hist[6].op = "ldelim"
    /\ hist[7].op = "finish"
    /\ \A X \in Impls : ret[X].out = <<3, 1, 1, 1>>

\* C3 (as claimed): ldelim() with no fork open fails with NoOpenFork and
\* leaves the buffer and the fork stack as they were.
C3_NoOpenFork ==
    [][(hist' # hist /\ Last(hist').op = "ldelim") =>
          /\ marksA = << >> =>
                (ret'.A.st \notin {"ok", "panic"} /\ buf'.A = buf.A)
          /\ stackB = << >> =>
                (ret'.B.st = "No fork to delimit" /\ buf'.B = buf.B
                    /\ stackB' = stackB)
          /\ statesC = << >> =>
                (ret'.C.st # "ok" /\ buf'.C = buf.C /\ statesC' = statesC)]_vars

\* C4 (as claimed): after reset() the buffer and the fork stack are empty.
C4_ResetClears ==
    (hist # << >> /\ Last(hist).op = "reset") =>
        /\ \A X \in Impls : buf[X] = << >>
        /\ marksA = << >>
        /\ stackB = << >>
        /\ statesC = << >>

\* C5 (as claimed): bytes(b) and string(s) append varint(n) and the n bytes
\* of the content in every implementation.
C5_LengthPrefixed ==
    [][(hist' # hist /\ Last(hist').op \in {"bytes", "string"}) =>
          \A X \in Impls :
              buf'[X] = buf[X] \o VarintRef(Len(Last(hist').s)) \o Last(hist').s]_vars

-----------------------------------------------------------------------------
(* The readers.                                                            *)
(*                                                                         *)
(*   R1_*  src/src/reader.rs (and src/library/src/reader.rs)  Reader       *)
(*   R2_*  src/src/rust/reader.rs    Reader over io::Cursor                *)
(*   R3_*  src/rust/src/reader.rs    ReaderImpl                            *)
(*   RL_*  src/rust/src/lib.rs       Reader, napi wrapper of ReaderImpl    *)
(*   D_*   src/src/rust/decoder.rs   Decoder                               *)
(*                                                                         *)
(* A call returns the cursor it leaves, its status ("ok" or the message of *)
(* the Err), its value and hi, one more than the highest index it read.    *)
(* A decoded integer is the sequence of its base-128 digits, least         *)
(* significant first: 5 digits for a u32, 10 for a u64.                    *)

Res(pos, st, val, hi) == [pos |-> pos, st |-> st, val |-> val, hi |-> hi]

PadGroups(g, w) == [i \in 1..w |-> IF i <= Len(g) THEN g[i] ELSE 0]

\* Lengths of 2^21 and more are all represented by 2^21: every buffer of the
\* model is shorter, so the bounds checks cannot tell them apart.
BigLen == 2097152

\* `as usize` of a decoded integer.
AsUsize(g) ==
    IF \E i \in 4..Len(g) : g[i] # 0
    THEN BigLen
    ELSE g[1] + 128 * g[2] + 16384 * g[3]

IsCont(b) == b >= 128 /\ b <= 191

\* std::str::from_utf8(s).is_ok(), scanning s from the 1-based index i.
RECURSIVE Utf8ValidFrom(_, _)
Utf8ValidFrom(s, i) ==
    IF i > Len(s) THEN TRUE
    ELSE LET b == s[i]
             n == Len(s) - i
             c(k) == IsCont(s[i + k])
             later == {j \in i..Len(s) : s[j] >= 128}
         IN  IF b < 128
             THEN \* a run of ASCII is passed over at once
                  later = {} \/ Utf8ValidFrom(s, CHOOSE j \in later : \A k \in later : j <= k)
             ELSE IF b >= 194 /\ b <= 223
                  THEN n >= 1 /\ c(1) /\ Utf8ValidFrom(s, i + 2)
             ELSE IF b = 224
                  THEN n >= 2 /\ s[i + 1] >= 160 /\ s[i + 1] <= 191 /\ c(2)
                       /\ Utf8ValidFrom(s, i + 3)
             ELSE IF (b >= 225 /\ b <= 236) \/ b = 238 \/ b = 239
                  THEN n >= 2 /\ c(1) /\ c(2) /\ Utf8ValidFrom(s, i + 3)
             ELSE IF b = 237
                  THEN n >= 2 /\ s[i + 1] >= 128 /\ s[i + 1] <= 159 /\ c(2)
                       /\ Utf8ValidFrom(s, i + 3)
             ELSE IF b = 240
                  THEN n >= 3 /\ s[i + 1] >= 144 /\ s[i + 1] <= 191 /\ c(2) /\ c(3)
                       /\ Utf8ValidFrom(s, i + 4)
             ELSE IF b >= 241 /\ b <= 243
                  THEN n >= 3 /\ c(1) /\ c(2) /\ c(3) /\ Utf8ValidFrom(s, i + 4)
             ELSE IF b = 244
                  THEN n >= 3 /\ s[i + 1] >= 128 /\ s[i + 1] <= 143 /\ c(2) /\ c(3)
                       /\ Utf8ValidFrom(s, i + 4)
             ELSE FALSE

Utf8Valid(s) == Utf8ValidFrom(s, 1)

-----------------------------------------------------------------------------
(* src/src/reader.rs                                                       *)

RECURSIVE R1_uint32_loop(_, _, _, _)
R1_uint32_loop(buffer, pos, i, result) ==
    IF i = 5 THEN Res(pos, "Varint too long", << >>, pos)
    ELSE IF pos >= Len(buffer) THEN Res(pos, "Buffer underflow", << >>, pos)
    ELSE LET byte == buffer[pos + 1]
         IN  IF i = 4 /\ byte > 15
             THEN Res(pos + 1, "Varint overflow", << >>, pos + 1)
             ELSE IF byte < 128
                  THEN Res(pos + 1, "ok", PadGroups(Append(result, byte % 128), 5), pos + 1)
                  ELSE R1_uint32_loop(buffer, pos + 1, i + 1, Append(result, byte % 128))

\* R1_uint32 with a fault: the excess bits of the fifth byte are dropped.
R1_uint32_wraps(buffer, pos) ==
    LET r == R1_uint32_loop(buffer, pos, 0, << >>)
    IN  IF r.st = "Varint overflow"
        THEN Res(r.pos, "ok", <<127, 127, 127, 127, 15>>, r.hi)
        ELSE r

R1_uint32(buffer, pos) == R1_uint32_loop(buffer, pos, 0, << >>)

R1_bytes(buffer, pos) ==
    LET v == R1_uint32(buffer, pos)
        len == AsUsize(v.val)
    IN  IF v.st # "ok" THEN v
        ELSE IF v.pos + len > Len(buffer)
             THEN Res(v.pos, "Buffer underflow", << >>, v.hi)
             ELSE Res(v.pos + len, "ok", SubSeq(buffer, v.pos + 1, v.pos + len), v.pos + len)

\* R1_string with a fault: slicing from the cursor it was called at.
R1_string_keeps_prefix(buffer, pos) ==
    LET v == R1_uint32(buffer, pos)
        len == AsUsize(v.val)
    IN  IF v.st # "ok" THEN v
        ELSE IF v.pos + len > Len(buffer)
             THEN Res(v.pos, "Buffer underflow", << >>, v.hi)
             ELSE LET s == SubSeq(buffer, pos + 1, pos + len)
                  IN  IF Utf8Valid(s)
                      THEN Res(pos + len, "ok", s, pos + len)
                      ELSE Res(pos + len, "Invalid UTF-8", << >>, pos + len)

R1_string(buffer, pos) ==
    LET v == R1_uint32(buffer, pos)
        len == AsUsize(v.val)
    IN  IF v.st # "ok" THEN v
        ELSE IF v.pos + len > Len(buffer)
             THEN Res(v.pos, "Buffer underflow", << >>, v.hi)
             ELSE LET s == SubSeq(buffer, v.pos + 1, v.pos + len)
                  IN  IF Utf8Valid(s)
                      THEN Res(v.pos + len, "ok", s, v.pos + len)
                      ELSE Res(v.pos + len, "Invalid UTF-8", << >>, v.pos + len)

\* R1_skip with a fault: no bounds test.
R1_skip_unchecked(buffer, pos, n) == Res(pos + n, "ok", << >>, 0)

R1_skip(buffer, pos, n) ==
    IF pos + n > Len(buffer)
    THEN Res(pos, "Buffer underflow", << >>, 0)
    ELSE Res(pos + n, "ok", << >>, 0)

\* R1_reset with a fault: the cursor stays.
R1_reset_keeps_pos(buffer, pos) == Res(pos, "ok", << >>, 0)

R1_reset(buffer, pos) == Res(0, "ok", << >>, 0)

-----------------------------------------------------------------------------
(* src/src/rust/reader.rs.  The calls return the set of their outcomes.    *)

\* `as u32` of a decoded u64.
AsU32(g) == [i \in 1..5 |-> IF i = 5 THEN g[5] % 16 ELSE g[i]]

\* R2_read_exact with a fault: rewinding the cursor when it fails.
R2_read_exact_rewinds(buffer, pos, n) ==
    IF pos + n <= Len(buffer)
    THEN {Res(pos + n, "ok", SubSeq(buffer, pos + 1, pos + n), IF n = 0 THEN 0 ELSE pos + n)}
    ELSE {Res(0, "Unexpected end of buffer", << >>, 0)}

\* Cursor::read_exact of n bytes.  When fewer than n bytes remain it fails
\* and leaves the cursor where it was (std before 1.80) or at the end of the
\* buffer (std since), depending on the toolchain the crate is built with.
R2_read_exact(buffer, pos, n) ==
    IF pos + n <= Len(buffer)
    THEN {Res(pos + n, "ok", SubSeq(buffer, pos + 1, pos + n), IF n = 0 THEN 0 ELSE pos + n)}
    ELSE {Res(p, "Unexpected end of buffer", << >>, 0) : p \in {pos, Len(buffer)}}

\* The tenth byte is shifted by 63: only its lowest bit stays in the u64.
RECURSIVE R2_varint_loop(_, _, _, _)
R2_varint_loop(buffer, pos, i, result) ==
    IF i = 10 THEN Res(pos, "Varint too long", << >>, pos)
    ELSE IF pos >= Len(buffer) THEN Res(pos, "Unexpected end of buffer", << >>, pos)
    ELSE LET byte == buffer[pos + 1]
             group == IF i = 9 THEN byte % 2 ELSE byte % 128
         IN  IF byte < 128
             THEN Res(pos + 1, "ok", PadGroups(Append(result, group), 10), pos + 1)
             ELSE R2_varint_loop(buffer, pos + 1, i + 1, Append(result, group))

R2_read_varint_internal(buffer, pos) == R2_varint_loop(buffer, pos, 0, << >>)

R2_uint64(buffer, pos) == {R2_read_varint_internal(buffer, pos)}

R2_uint32(buffer, pos) ==
    LET v == R2_read_varint_internal(buffer, pos)
    IN  {IF v.st = "ok" THEN [v EXCEPT !.val = AsU32(v.val)] ELSE v}

R2_fixed32(buffer, pos) == R2_read_exact(buffer, pos, 4)

R2_fixed64(buffer, pos) == R2_read_exact(buffer, pos, 8)

\* vec![0u8; length] panics or aborts when the allocation of length bytes
\* fails, which it does for the lengths near 2^64 that BigLen stands for.
R2_bytes(buffer, pos) ==
    LET v == R2_read_varint_internal(buffer, pos)
        length == AsUsize(v.val)
    IN  IF v.st # "ok" THEN {v}
        ELSE {[r EXCEPT !.hi = IF r.hi > v.hi THEN r.hi ELSE v.hi] :
                  r \in R2_read_exact(buffer, v.pos, length)}
             \cup (IF length >= BigLen
                   THEN {Res(v.pos, "panic", << >>, v.hi)}
                   ELSE {})

R2_string(buffer, pos) ==
    {IF r.st = "ok" /\ ~Utf8Valid(r.val)
     THEN [r EXCEPT !.st = "Invalid UTF-8", !.val = << >>]
     ELSE r : r \in R2_bytes(buffer, pos)}

R2_skip(buffer, pos, count) ==
    IF pos + count > Len(buffer)
    THEN Res(pos, "Cannot skip beyond buffer end", << >>, 0)
    ELSE Res(pos + count, "ok", << >>, 0)

R2_skip_type(buffer, pos, wire_type) ==
    IF wire_type = 0
    THEN {[R2_read_varint_internal(buffer, pos) EXCEPT !.val = << >>]}
    ELSE IF wire_type = 1 THEN {R2_skip(buffer, pos, 8)}
    ELSE IF wire_type = 2
    THEN LET v == R2_read_varint_internal(buffer, pos)
             s == R2_skip(buffer, v.pos, AsUsize(AsU32(v.val)))
         IN  {IF v.st # "ok" THEN v ELSE [s EXCEPT !.hi = v.hi]}
    ELSE IF wire_type = 5 THEN {R2_skip(buffer, pos, 4)}
    ELSE {Res(pos, "Invalid wire type", << >>, 0)}

R2_reset(buffer, pos) == {Res(0, "ok", << >>, 0)}

-----------------------------------------------------------------------------
(* src/rust/src/reader.rs and the Reader of src/rust/src/lib.rs            *)

Max(a, b) == IF a > b THEN a ELSE b

\* R3_check_bounds with a fault: the last byte is out of bounds.
R3_check_bounds_strict(buf_, pos, len) == pos + len < Len(buf_)

R3_check_bounds(buf_, pos, len) == pos + len <= Len(buf_)

\* The `for _ in 0..5` of read_varint32 that passes over the bytes after the
\* fifth while they have the continuation bit.
RECURSIVE R3_varint32_rest(_, _, _, _)
R3_varint32_rest(buf_, pos, k, value) ==
    IF k = 5 THEN Res(pos, "ok", value, pos)
    ELSE IF pos >= Len(buf_) THEN Res(pos, "index out of range", << >>, pos)
    ELSE IF buf_[pos + 1] < 128 THEN Res(pos + 1, "ok", value, pos + 1)
    ELSE R3_varint32_rest(buf_, pos + 1, k + 1, value)

RECURSIVE R3_varint32_loop(_, _, _, _)
R3_varint32_loop(buf_, pos, shift, value) ==
    IF ~R3_check_bounds(buf_, pos, 1) THEN Res(pos, "index out of range", << >>, pos)
    ELSE LET byte == buf_[pos + 1]
         IN  IF shift = 28
             THEN LET v == PadGroups(Append(value, byte % 16), 5)
                  IN  IF byte < 128
                      THEN Res(pos + 1, "ok", v, pos + 1)
                      ELSE R3_varint32_rest(buf_, pos + 1, 0, v)
             ELSE IF byte < 128
                  THEN Res(pos + 1, "ok", PadGroups(Append(value, byte % 128), 5), pos + 1)
                  ELSE R3_varint32_loop(buf_, pos + 1, shift + 7, Append(value, byte % 128))

R3_read_varint32(buf_, pos) == R3_varint32_loop(buf_, pos, 0, << >>)

RECURSIVE R3_varint64_loop(_, _, _, _)
R3_varint64_loop(buf_, pos, shift, value) ==
    IF ~R3_check_bounds(buf_, pos, 1) THEN Res(pos, "index out of range", << >>, pos)
    ELSE LET byte == buf_[pos + 1]
         IN  IF shift = 63
             THEN Res(pos + 1, "ok", Append(value, byte % 2), pos + 1)
             ELSE IF byte < 128
                  THEN Res(pos + 1, "ok", PadGroups(Append(value, byte % 128), 10), pos + 1)
                  ELSE IF shift + 7 > 63
                       THEN Res(pos + 1, "ok", PadGroups(Append(value, byte % 128), 10), pos + 1)
                       ELSE R3_varint64_loop(buf_, pos + 1, shift + 7, Append(value, byte % 128))

R3_read_varint64(buf_, pos) == R3_varint64_loop(buf_, pos, 0, << >>)

R3_read_fixed(buf_, pos, n) ==
    IF ~R3_check_bounds(buf_, pos, n) THEN Res(pos, "index out of range", << >>, 0)
    ELSE Res(pos + n, "ok", SubSeq(buf_, pos + 1, pos + n), pos + n)

R3_read_fixed32(buf_, pos) == R3_read_fixed(buf_, pos, 4)

R3_read_fixed64(buf_, pos) == R3_read_fixed(buf_, pos, 8)

R3_read_bytes(buf_, pos, len) ==
    IF ~R3_check_bounds(buf_, pos, len) THEN Res(pos, "index out of range", << >>, 0)
    ELSE Res(pos + len, "ok", SubSeq(buf_, pos + 1, pos + len), IF len = 0 THEN 0 ELSE pos + len)

R3_skip(buf_, pos, len) ==
    IF ~R3_check_bounds(buf_, pos, len) THEN Res(pos, "index out of range", << >>, 0)
    ELSE Res(pos + len, "ok", << >>, 0)

RECURSIVE R3_skip_varint(_, _)
R3_skip_varint(buf_, pos) ==
    IF ~R3_check_bounds(buf_, pos, 1) THEN Res(pos, "index out of range", << >>, pos)
    ELSE IF buf_[pos + 1] < 128 THEN Res(pos + 1, "ok", << >>, pos + 1)
    ELSE R3_skip_varint(buf_, pos + 1)

\* skip_type; its case 3 is the loop R3_skip_group.
RECURSIVE R3_skip_type(_, _, _)
RECURSIVE R3_skip_group(_, _, _)
RECURSIVE R3_skip_group_flat(_, _, _)
\* The group loop with a fault: a nested start-group tag is passed over
\* without recursing, so the first end-group tag ends the loop.
R3_skip_group_flat(buf_, pos, hi) ==
    LET t == R3_read_varint32(buf_, pos)
        wire_type == t.val[1] % 8
        s == R3_skip_type(buf_, t.pos, wire_type)
    IN  IF t.st # "ok" THEN [t EXCEPT !.hi = Max(hi, t.hi)]
        ELSE IF wire_type = 4 THEN Res(t.pos, "ok", << >>, Max(hi, t.hi))
        ELSE IF wire_type = 3 THEN R3_skip_group_flat(buf_, t.pos, Max(hi, t.hi))
        ELSE IF s.st # "ok" THEN [s EXCEPT !.hi = Max(Max(hi, t.hi), s.hi)]
        ELSE R3_skip_group_flat(buf_, s.pos, Max(Max(hi, t.hi), s.hi))

R3_skip_group(buf_, pos, hi) ==
    LET t == R3_read_varint32(buf_, pos)
        wire_type == t.val[1] % 8
        s == R3_skip_type(buf_, t.pos, wire_type)
    IN  IF t.st # "ok" THEN [t EXCEPT !.hi = Max(hi, t.hi)]
        ELSE IF wire_type = 4 THEN Res(t.pos, "ok", << >>, Max(hi, t.hi))
        ELSE IF s.st # "ok" THEN [s EXCEPT !.hi = Max(Max(hi, t.hi), s.hi)]
        ELSE R3_skip_group(buf_, s.pos, Max(Max(hi, t.hi), s.hi))

R3_skip_type(buf_, pos, wire_type) ==
    IF wire_type = 0 THEN R3_skip_varint(buf_, pos)
    ELSE IF wire_type = 1 THEN R3_skip(buf_, pos, 8)
    ELSE IF wire_type = 2
    THEN LET v == R3_read_varint32(buf_, pos)
         IN  IF v.st # "ok" THEN v
             ELSE [R3_skip(buf_, v.pos, AsUsize(v.val)) EXCEPT !.hi = v.hi]
    ELSE IF wire_type = 3 THEN R3_skip_group(buf_, pos, 0)
    ELSE IF wire_type = 5 THEN R3_skip(buf_, pos, 4)
    ELSE Res(pos, "invalid wire type", << >>, 0)

RL_uint32(buf_, pos) == R3_read_varint32(buf_, pos)

RL_uint64(buf_, pos) == R3_read_varint64(buf_, pos)

RL_fixed32(buf_, pos) == R3_read_fixed32(buf_, pos)

RL_fixed64(buf_, pos) == R3_read_fixed64(buf_, pos)

RL_bytes(buf_, pos) ==
    LET v == R3_read_varint32(buf_, pos)
        data == R3_read_bytes(buf_, v.pos, AsUsize(v.val))
    IN  IF v.st # "ok" THEN v
        ELSE [data EXCEPT !.hi = Max(v.hi, data.hi)]

RL_string(buf_, pos) ==
    LET r == RL_bytes(buf_, pos)
    IN  IF r.st = "ok" /\ ~Utf8Valid(r.val)
        THEN [r EXCEPT !.st = "invalid utf8", !.val = << >>]
        ELSE r

RL_skip(buf_, pos, length) == R3_skip(buf_, pos, length)

RL_skip_type(buf_, pos, wire_type) == R3_skip_type(buf_, pos, wire_type)

-----------------------------------------------------------------------------
(* src/src/rust/decoder.rs                                                 *)

RECURSIVE D_varint_loop(_, _, _, _)
D_varint_loop(buffer, position, i, result) ==
    IF position >= Len(buffer)
    THEN Res(position, "Unexpected end of buffer", << >>, position)
    ELSE LET byte == buffer[position + 1]
             group == IF i = 9 THEN byte % 2 ELSE byte % 128
         IN  IF byte < 128
             THEN Res(position + 1, "ok", PadGroups(Append(result, group), 10), position + 1)
             ELSE IF i = 9
                  THEN Res(position + 1, "Varint too long", << >>, position + 1)
                  ELSE D_varint_loop(buffer, position + 1, i + 1, Append(result, group))

D_decode_varint(buffer, position) == D_varint_loop(buffer, position, 0, << >>)

D_decode_bool(buffer, position) ==
    IF position >= Len(buffer)
    THEN Res(position, "Unexpected end of buffer", << >>, 0)
    ELSE Res(position + 1, "ok", <<IF buffer[position + 1] # 0 THEN 1 ELSE 0>>, position + 1)

D_decode_fixed(buffer, position, n) ==
    IF position + n > Len(buffer)
    THEN Res(position, "Unexpected end of buffer", << >>, 0)
    ELSE Res(position + n, "ok", SubSeq(buffer, position + 1, position + n), position + n)

D_decode_fixed32(buffer, position) == D_decode_fixed(buffer, position, 4)

D_decode_fixed64(buffer, position) == D_decode_fixed(buffer, position, 8)

\* position + length exceeds 2^64 - 1, for a length g decoded from a varint.
AddOverflows(position, g) ==
    /\ g[10] = 1
    /\ \A i \in 2..9 : g[i] = 127
    /\ g[1] + position >= 128

\* When position + length overflows, a debug build panics at the addition;
\* a release build wraps, passes the test and panics at the slice, whose
\* start is then above its end.
D_decode_bytes(buffer, position) ==
    LET v == D_decode_varint(buffer, position)
        length == AsUsize(v.val)
    IN  IF v.st # "ok" THEN v
        ELSE IF AddOverflows(v.pos, v.val) THEN Res(v.pos, "panic", << >>, v.hi)
        ELSE IF v.pos + length > Len(buffer)
             THEN Res(v.pos, "Unexpected end of buffer", << >>, v.hi)
             ELSE Res(v.pos + length, "ok", SubSeq(buffer, v.pos + 1, v.pos + length),
                      v.pos + length)

D_decode_string(buffer, position) ==
    LET r == D_decode_bytes(buffer, position)
    IN  IF r.st = "ok" /\ ~Utf8Valid(r.val)
        THEN [r EXCEPT !.st = "Invalid UTF-8", !.val = << >>]
        ELSE r

\* The value is <<field_number, wire_type>>.
D_decode_tag(buffer, position) ==
    LET v == D_decode_varint(buffer, position)
        tag == AsU32(v.val)
    IN  IF v.st # "ok" THEN v
        ELSE [v EXCEPT !.val = <<(tag[1] \div 8) + 16 * tag[2] + 2048 * tag[3]
                                     + 262144 * tag[4] + 33554432 * tag[5],
                                 tag[1] % 8>>]

D_skip(buffer, position, count) ==
    IF position + count > Len(buffer)
    THEN Res(position, "Cannot skip beyond buffer end", << >>, 0)
    ELSE Res(position + count, "ok", << >>, 0)

\* D_skip_field with a fault: skipping the payload from where the length starts.
D_skip_field_from_length(buffer, position, wire_type) ==
    IF wire_type = 0
    THEN [D_decode_varint(buffer, position) EXCEPT !.val = << >>]
    ELSE IF wire_type = 1 THEN D_skip(buffer, position, 8)
    ELSE IF wire_type = 2
    THEN LET v == D_decode_varint(buffer, position)
         IN  IF v.st # "ok" THEN v
             ELSE [D_skip(buffer, position, AsUsize(AsU32(v.val))) EXCEPT !.hi = v.hi]
    ELSE IF wire_type = 5 THEN D_skip(buffer, position, 4)
    ELSE Res(position, "Invalid wire type", << >>, 0)

D_skip_field(buffer, position, wire_type) ==
    IF wire_type = 0
    THEN [D_decode_varint(buffer, position) EXCEPT !.val = << >>]
    ELSE IF wire_type = 1 THEN D_skip(buffer, position, 8)
    ELSE IF wire_type = 2
    THEN LET v == D_decode_varint(buffer, position)
         IN  IF v.st # "ok" THEN v
             ELSE [D_skip(buffer, v.pos, AsUsize(AsU32(v.val))) EXCEPT !.hi = v.hi]
    ELSE IF wire_type = 5 THEN D_skip(buffer, position, 4)
    ELSE Res(position, "Invalid wire type", << >>, 0)

D_reset(buffer, position) == Res(0, "ok", << >>, 0)

-----------------------------------------------------------------------------
(* Integers of fixed width.  A u32 is the sequence of its 5 base-128       *)
(* digits, a u64 or an i64 (in two's complement) of its 10 digits, least   *)
(* significant first; the last digit holds the 4 bits (u32) or the one bit *)
(* (64 bits) that are left over.                                           *)

\* What the last digit counts up to.
TopMod(n) == IF Len(n) = 5 THEN 16 ELSE 2

DigitMod(n, i) == IF i = Len(n) THEN TopMod(n) ELSE 128

IsZero(n) == \A i \in 1..Len(n) : n[i] = 0

\* The u32 of a number below 2^31.
ToU32(k) == [i \in 1..5 |-> (k \div (128 ^ (i - 1))) % 128]

\* `as u64`, `as i64` of a u32.
Widen(n) == PadGroups(n, 10)

\* n >> 7
Shr7(n) == [i \in 1..Len(n) |-> IF i < Len(n) THEN n[i + 1] ELSE 0]

\* n << k for 1 <= k <= 6: the bits shifted out are lost.
Shl(n, k) ==
    [i \in 1..Len(n) |->
        (((n[i] * 2 ^ k) % 128) + (IF i > 1 THEN n[i - 1] \div (2 ^ (7 - k)) ELSE 0))
        % DigitMod(n, i)]

\* n >> k of an unsigned n, for 1 <= k <= 6.
Shr(n, k) ==
    [i \in 1..Len(n) |->
        (n[i] \div (2 ^ k)) + (IF i < Len(n) THEN (n[i + 1] % (2 ^ k)) * (2 ^ (7 - k)) ELSE 0)]

\* n >> k of an i64: the sign bit is shifted in.
RECURSIVE Sar(_, _)
Sar(n, k) ==
    LET sign == n[10]
        ext == IF sign = 1 THEN 127 ELSE 0
        next(i) == IF i = 9 THEN ext ELSE n[i + 1]
    IN  IF k = 0 THEN n
        ELSE IF k >= 7
             THEN Sar([i \in 1..10 |-> IF i = 10 THEN sign ELSE next(i)], k - 7)
             ELSE [i \in 1..10 |->
                      IF i = 10 THEN sign
                      ELSE (n[i] \div (2 ^ k)) + (next(i) % (2 ^ k)) * (2 ^ (7 - k))]

\* Bit by bit on two digits; k is the weight of the bit.
BitXor(x, y) ==
    LET b(k) == ((x \div k) + (y \div k)) % 2
    IN  b(1) + 2 * b(2) + 4 * b(4) + 8 * b(8) + 16 * b(16) + 32 * b(32) + 64 * b(64)

BitOr(x, y) ==
    LET b(k) == IF (x \div k) % 2 = 1 \/ (y \div k) % 2 = 1 THEN 1 ELSE 0
    IN  b(1) + 2 * b(2) + 4 * b(4) + 8 * b(8) + 16 * b(16) + 32 * b(32) + 64 * b(64)

BitAnd(x, y) ==
    LET b(k) == IF (x \div k) % 2 = 1 /\ (y \div k) % 2 = 1 THEN 1 ELSE 0
    IN  b(1) + 2 * b(2) + 4 * b(4) + 8 * b(8) + 16 * b(16) + 32 * b(32) + 64 * b(64)

\* a ^ b, a | b; each operand is evaluated once.
Xor(a, b) ==
    CHOOSE r \in {[i \in 1..Len(x) |-> BitXor(x[i], y[i])] : x \in {a}, y \in {b}} : TRUE

Or(a, b) ==
    CHOOSE r \in {[i \in 1..Len(x) |-> BitOr(x[i], y[i])] : x \in {a}, y \in {b}} : TRUE

\* n & mask for a mask below 128.
And(n, mask) == [i \in 1..Len(n) |-> IF i = 1 THEN BitAnd(n[1], mask) ELSE 0]

Not(n) == [i \in 1..Len(n) |-> DigitMod(n, i) - 1 - n[i]]

RECURSIVE Inc(_, _)
Inc(n, i) ==
    IF i > Len(n) THEN n
    ELSE IF n[i] + 1 < DigitMod(n, i)
         THEN [n EXCEPT ![i] = n[i] + 1]
         ELSE Inc([n EXCEPT ![i] = 0], i + 1)

\* -n, wrapping
Neg(n) == Inc(Not(n), 1)

\* The i64 of a number between -2^31 and 2^31.
I64(k) == IF k >= 0 THEN Widen(ToU32(k)) ELSE Neg(Widen(ToU32(0 - k)))

I64Max == [i \in 1..10 |-> IF i = 10 THEN 0 ELSE 127]

I64Min == [i \in 1..10 |-> IF i = 10 THEN 1 ELSE 0]

U32Max == [i \in 1..5 |-> IF i = 5 THEN 15 ELSE 127]

-----------------------------------------------------------------------------
(* The free functions of src/src/lib.rs (src/src/rust/lib.rs has the same  *)
(* bodies) and of src/src/simd.rs.  A call returns its status, "ok" or the *)
(* message of the Err, and its value.                                      *)

CRes(st, val) == [st |-> st, val |-> val]

MAX_VARINT_BYTES == 10

MAX_WIRE_TYPE == 5

MAX_FIELD_NUMBER == 536870911

RESERVED_RANGE_START == 19000

RESERVED_RANGE_END == 19999

RECURSIVE decode_varint_loop(_, _, _)
decode_varint_loop(bytes, i, result) ==
    IF i >= Len(bytes) THEN CRes("Incomplete varint", << >>)
    ELSE LET byte == bytes[i + 1]
         IN  IF i >= MAX_VARINT_BYTES THEN CRes("Varint too long", << >>)
             ELSE IF i = MAX_VARINT_BYTES - 1 /\ byte > 1
                  THEN CRes("Varint overflow", << >>)
             ELSE IF byte < 128
                  THEN CRes("ok", PadGroups(Append(result, byte % 128), 10))
             ELSE decode_varint_loop(bytes, i + 1, Append(result, byte % 128))

\* decode_varint with a fault: the tenth byte is not examined, every byte
\* after the ninth is taken as the terminating byte 0.
decode_varint_nine_bytes(buffer) ==
    decode_varint_loop(IF Len(buffer) > 9
                       THEN SubSeq(buffer, 1, 9) \o <<0>> ELSE buffer,
                       0, << >>)

decode_varint(buffer) == decode_varint_loop(buffer, 0, << >>)

RECURSIVE encode_varint_loop(_, _)
encode_varint_loop(result, n) ==
    LET byte == n[1]
        rest == Shr7(n)
    IN  IF IsZero(rest)
        THEN Append(result, byte)
        ELSE encode_varint_loop(Append(result, byte + 128), rest)

\* encode_varint with a fault: all ten bytes are written.
encode_varint_fixed(value) ==
    CRes("ok", [i \in 1..10 |-> IF i < 10 THEN value[i] + 128 ELSE value[i]])

encode_varint(value) == CRes("ok", encode_varint_loop(<< >>, value))

decode_zigzag(value) ==
    LET n == value
    IN  Xor(Shr(n, 1), Neg(And(n, 1)))

\* encode_zigzag with a fault: the shift by 63 is that of a u64.
encode_zigzag_logical(value) ==
    Xor(Shl(value, 1), [i \in 1..10 |-> IF i = 1 THEN value[10] ELSE 0])

encode_zigzag(value) == Xor(Shl(value, 1), Sar(value, 63))

\* decode_field_tag with a fault: the wire type is taken from two bits.
decode_field_tag_two_bits(buffer) ==
    IF buffer = << >> THEN CRes("Empty buffer", << >>)
    ELSE LET tag == decode_varint(buffer)
         IN  IF tag.st # "ok" THEN tag
             ELSE CRes("ok", <<Sar(tag.val, 3), And(tag.val, 3)>>)

decode_field_tag(buffer) ==
    IF buffer = << >> THEN CRes("Empty buffer", << >>)
    ELSE LET tag == decode_varint(buffer)
         IN  IF tag.st # "ok" THEN tag
             ELSE CRes("ok", <<Sar(tag.val, 3), And(tag.val, 7)>>)

\* encode_field_tag with a fault: the reserved range is let through.
encode_field_tag_unreserved(field_number, wire_type) ==
    IF \/ ~(field_number >= 1 /\ field_number <= MAX_FIELD_NUMBER)
       \/ ~(wire_type >= 0 /\ wire_type <= MAX_WIRE_TYPE)
    THEN CRes("Invalid field number or wire type", << >>)
    ELSE encode_varint(Or(Shl(I64(field_number), 3), I64(wire_type)))

encode_field_tag(field_number, wire_type) ==
    IF \/ ~(field_number >= 1 /\ field_number <= MAX_FIELD_NUMBER)
       \/ (field_number >= RESERVED_RANGE_START /\ field_number <= RESERVED_RANGE_END)
       \/ ~(wire_type >= 0 /\ wire_type <= MAX_WIRE_TYPE)
    THEN CRes("Invalid field number or wire type", << >>)
    ELSE encode_varint(Or(Shl(I64(field_number), 3), I64(wire_type)))

\* src/src/simd.rs

RECURSIVE encode_varint_u32(_, _)
encode_varint_u32(value, output) ==
    LET byte == value[1]
        rest == Shr7(value)
    IN  IF IsZero(rest)
        THEN Append(output, byte)
        ELSE encode_varint_u32(rest, Append(output, byte + 128))

RECURSIVE encode_varint_batch_loop(_, _)
encode_varint_batch_loop(values, result) ==
    IF values = << >> THEN result
    ELSE encode_varint_batch_loop(Tail(values), encode_varint_u32(Head(values), result))

encode_varint_batch_scalar(values) == CRes("ok", encode_varint_batch_loop(values, << >>))

encode_varint_batch_simd(values) == encode_varint_batch_scalar(values)

\* The value is <<value, bytes_read>>.
RECURSIVE decode_varint_u32_loop(_, _, _)
decode_varint_u32_loop(buffer, i, result) ==
    IF i >= Len(buffer) THEN CRes("Incomplete varint", << >>)
    ELSE LET byte == buffer[i + 1]
         IN  IF i >= 5 THEN CRes("Varint too long for u32", << >>)
             ELSE IF i = 4 /\ byte > 15 THEN CRes("Varint overflow for u32", << >>)
             ELSE IF byte < 128
                  THEN CRes("ok", <<PadGroups(Append(result, byte % 128), 5), i + 1>>)
             ELSE decode_varint_u32_loop(buffer, i + 1, Append(result, byte % 128))

\* decode_varint_u32 with a fault: a fifth byte is one too many.
decode_varint_u32_four_bytes(buffer) ==
    LET d == decode_varint_u32_loop(buffer, 0, << >>)
    IN  IF d.st = "ok" /\ d.val[2] = 5 THEN CRes("Varint too long for u32", << >>) ELSE d

decode_varint_u32(buffer) == decode_varint_u32_loop(buffer, 0, << >>)

RECURSIVE decode_varint_batch_loop(_, _, _)
decode_varint_batch_loop(buffer, pos, result) ==
    IF pos < Len(buffer)
    THEN LET d == decode_varint_u32(SubSeq(buffer, pos + 1, Len(buffer)))
         IN  IF d.st = "ok"
             THEN decode_varint_batch_loop(buffer, pos + d.val[2], Append(result, d.val[1]))
             ELSE CRes(d.st, << >>)
    ELSE CRes("ok", result)

decode_varint_batch_scalar(buffer) == decode_varint_batch_loop(buffer, 0, << >>)

decode_varint_batch_simd(buffer) == decode_varint_batch_scalar(buffer)

-----------------------------------------------------------------------------
(* The zigzag calls of the writer and readers, and the tag calls of the    *)
(* writer and the encoder.                                                 *)

\* Writer::write_varint_internal (src/src/rust/writer.rs) of a u64 given by
\* its digits.
RECURSIVE WB_write_varint_u64(_, _)
WB_write_varint_u64(buffer, value) ==
    LET byte == value[1]
        rest == Shr7(value)
    IN  IF IsZero(rest)
        THEN Append(buffer, byte)
        ELSE WB_write_varint_u64(Append(buffer, byte + 128), rest)

WB_sint64(buffer, value) ==
    LET zigzag == Xor(Shl(value, 1), Sar(value, 63))
    IN  WB_write_varint_u64(buffer, zigzag)

\* Writer::tag: the arguments are u32.
WB_tag(buffer, field_number, wire_type) ==
    IF wire_type > 5
    THEN [st |-> "Invalid wire type", buffer |-> buffer]
    ELSE LET tag == Or(Shl(ToU32(field_number), 3), ToU32(wire_type))
         IN  [st |-> "ok", buffer |-> WB_write_varint_u64(buffer, Widen(tag))]

\* src/src/rust/encoder.rs
RECURSIVE E_encode_varint_loop(_, _)
E_encode_varint_loop(buffer, val) ==
    LET byte == val[1]
        rest == Shr7(val)
    IN  IF IsZero(rest)
        THEN Append(buffer, byte)
        ELSE E_encode_varint_loop(Append(buffer, byte + 128), rest)

E_encode_varint(buffer, value) == [st |-> "ok", buffer |-> E_encode_varint_loop(buffer, value)]

E_encode_tag(buffer, field_number, wire_type) ==
    IF wire_type > 5
    THEN [st |-> "Invalid wire type", buffer |-> buffer]
    ELSE LET tag == Or(Shl(ToU32(field_number), 3), ToU32(wire_type))
         IN  E_encode_varint(buffer, Widen(tag))

\* Reader::sint64 of src/src/rust/reader.rs
R2_sint64(buffer, pos) ==
    LET v == R2_read_varint_internal(buffer, pos)
        value == v.val
    IN  {IF v.st = "ok"
         THEN [v EXCEPT !.val = Xor(Shr(value, 1), Neg(And(value, 1)))]
         ELSE v}

\* R3_read_sint64 with a fault: the low bit is not negated before the xor.
R3_read_sint64_no_neg(buf_, pos) ==
    LET v == R3_read_varint64(buf_, pos)
        value == v.val
    IN  IF v.st = "ok"
        THEN [v EXCEPT !.val = Xor(Shr(value, 1), And(value, 1))]
        ELSE v

\* ReaderImpl::read_sint64 of src/rust/src/reader.rs
R3_read_sint64(buf_, pos) ==
    LET v == R3_read_varint64(buf_, pos)
        value == v.val
    IN  IF v.st = "ok"
        THEN [v EXCEPT !.val = Xor(Shr(value, 1), Neg(And(value, 1)))]
        ELSE v

\* Reader::sint64 of src/rust/src/lib.rs
RL_sint64(buf_, pos) == R3_read_sint64(buf_, pos)

\* i32::MIN
I32Min == (0 - 2147483647) - 1

\* `value as u64` and `(value as i64) as u64` of an i32: the sign is extended.
I32AsU64(value) ==
    IF value >= 0 THEN Widen(ToU32(value))
    ELSE Not(Widen(ToU32(0 - (value + 1))))

\* `value as i32` of a u32.
U32AsI32(n) ==
    LET low == n[1] + (128 * n[2]) + (16384 * n[3]) + (2097152 * n[4])
                    + (268435456 * (n[5] % 8))
    IN  IF n[5] >= 8 THEN (low - 2147483647) - 1 ELSE low

\* WriterImpl::write_varint64 of src/rust/src/writer.rs
RECURSIVE WC_write_varint64(_, _)
WC_write_varint64(b, value) ==
    IF ~IsZero(Shr7(value))
    THEN WC_write_varint64(Append(b, value[1] + 128), Shr7(value))
    ELSE Append(b, value[1])

\* Writer::int32 with a fault: a negative value is written as the varint of
\* its low 32 bits.
WL_int32_low_bits(b, value) ==
    IF value < 0
    THEN WC_write_varint64(b, Widen([i \in 1..5 |->
                                      I32AsU64(value)[i] % (IF i = 5 THEN 16 ELSE 128)]))
    ELSE WC_write_varint32(b, value)

\* Writer::int32 of src/rust/src/lib.rs
WL_int32(b, value) ==
    IF value < 0
    THEN WC_write_varint64(b, I32AsU64(value))
    ELSE WC_write_varint32(b, value)

\* Writer::int32 of src/src/rust/writer.rs
WB_int32(buffer, value) ==
    IF value >= 0
    THEN WB_write_varint_u64(buffer, Widen(ToU32(value)))
    ELSE WB_write_varint_u64(buffer, I32AsU64(value))

\* Reader::int32 of src/rust/src/lib.rs
RL_int32(buf_, pos) ==
    LET value == R3_read_varint32(buf_, pos)
    IN  IF value.st = "ok" THEN [value EXCEPT !.val = <<U32AsI32(value.val)>>]
        ELSE value

-----------------------------------------------------------------------------
(* The readers under test: one reader of one implementation over one       *)
(* buffer, on which any sequence of calls is made.                         *)

RImpls == {"R1", "R2", "R3", "D"}

\* Length of the buffers that are enumerated in full.
MaxBufLen == 3

\* The bytes they are made of: terminators, a length, the tags of field 1
\* with wire types 3, 4 and 6, continuation bytes.
RBytes == {0, 2, 11, 12, 14, 128, 255}

RECURSIVE SeqsUpTo(_, _)
SeqsUpTo(S, n) ==
    IF n = 0 THEN {<< >>}
    ELSE LET shorter == SeqsUpTo(S, n - 1)
         IN  shorter \cup {Append(s, b) : s \in {x \in shorter : Len(x) = n - 1}, b \in S}

\* "hello", two-, three- and four-byte characters, and texts whose length
\* takes two bytes.
RStrs ==
    {<< >>, <<104, 101, 108, 108, 111>>, <<195, 169>>, <<226, 130, 172>>,
     <<240, 159, 152, 128>>, Text(127), Text(128)}

\* What the writers produce for them.
WrittenStrs ==
    {WA_string(<< >>, s) : s \in RStrs}
    \cup {WB_string(<< >>, s) : s \in RStrs}
    \cup {WL_string(<< >>, s) : s \in RStrs}

\* Fixed-width fields, varints of 5, 10 and 11 bytes, lengths beyond the
\* buffer, groups.
LongBufs ==
    {Fill(8, 255) \o <<0>>,
     <<1, 2, 3, 4, 5>>,
     <<255, 255, 255, 255, 15>>,
     <<255, 255, 255, 255, 16, 0>>,
     <<255, 255, 255, 255, 255, 0>>,
     Fill(9, 255) \o <<1>>,
     Fill(9, 255) \o <<127, 0>>,
     Fill(9, 128) \o <<1>>,
     Fill(10, 255) \o <<0>>,
     Fill(11, 128) \o <<0>>,
     <<8, 1, 12, 0>>,
     <<10, 2, 255, 12, 12>>,
     <<11, 13, 1, 2, 3, 4, 12, 12>>,
     <<9, 1, 2, 3, 4, 5, 6, 7, 8, 12>>,
     <<3, 226, 130, 0>>}

\* The i64 values that are written and encoded: the small ones of either
\* sign, where the encoding grows by a byte, the largest and the smallest.
I64Vals ==
    {I64(k) : k \in {0, 1, 2, 63, 64, 127, 128, 300, 16384, 2147483647,
                     -1, -2, -64, -65, -300, -2147483647}}
    \cup {I64Max, I64Min, Inc(I64Min, 1), Not(I64(1)),
          <<0, 0, 0, 0, 0, 1, 0, 0, 0, 0>>, <<1, 2, 3, 4, 5, 6, 7, 8, 9, 1>>}

\* What Writer::sint64 produces for them.
WrittenSints == {WB_sint64(<< >>, v) : v \in I64Vals}

\* The i32 values that are written: where the encoding grows by a byte, the
\* largest, the negative ones and the smallest.
I32Vals == {0, 1, 127, 128, 16383, 16384, 2097152, 268435455, 268435456,
            2147483647, -1, -2, -128, -129, -2147483647, I32Min}

\* What Writer::int32 produces for them.
WrittenInt32s == {WL_int32(<< >>, v) : v \in I32Vals}

RBufs ==
    SeqsUpTo(RBytes, MaxBufLen) \cup WrittenStrs \cup LongBufs \cup WrittenSints
    \cup WrittenInt32s

\* Counts to skip; BigLen stands for the counts up to 2^32 - 1.
SkipCounts == {0, 1, 4, 9, BigLen}

WireTypes == 0..8

RInit ==
    /\ WIdle
    /\ PIdle
    /\ SCIdle
    /\ CDIdle
    /\ PPIdle
    /\ LPIdle
    /\ rimpl \in RImpls
    /\ rbuf \in RBufs
    /\ rpos = 0
    /\ rret = NoCall

\* One call: any of its outcomes becomes the reader's state.
RDo(op, arg, outcomes) ==
    \E r \in outcomes :
        /\ rpos' = r.pos
        /\ rret' = RCall(op, arg, rpos, r)
        /\ UNCHANGED <<rimpl, rbuf>>
        /\ UNCHANGED notr

R_uint32 ==
    /\ rimpl \in {"R1", "R2", "R3"}
    /\ RDo("uint32", 0,
           IF rimpl = "R1" THEN {R1_uint32(rbuf, rpos)}
           ELSE IF rimpl = "R2" THEN R2_uint32(rbuf, rpos)
           ELSE {RL_uint32(rbuf, rpos)})

R_uint64 ==
    /\ rimpl \in {"R2", "R3", "D"}
    /\ RDo("uint64", 0,
           IF rimpl = "R2" THEN R2_uint64(rbuf, rpos)
           ELSE IF rimpl = "R3" THEN {RL_uint64(rbuf, rpos)}
           ELSE {D_decode_varint(rbuf, rpos)})

R_sint64 ==
    /\ rimpl \in {"R2", "R3"}
    /\ RDo("sint64", 0,
           IF rimpl = "R2" THEN R2_sint64(rbuf, rpos)
           ELSE {RL_sint64(rbuf, rpos)})

R_int32 ==
    /\ rimpl = "R3"
    /\ RDo("int32", 0, {RL_int32(rbuf, rpos)})

R_bool ==
    /\ rimpl = "D"
    /\ RDo("bool", 0, {D_decode_bool(rbuf, rpos)})

R_tag ==
    /\ rimpl = "D"
    /\ RDo("tag", 0, {D_decode_tag(rbuf, rpos)})

R_fixed32 ==
    /\ rimpl \in {"R2", "R3", "D"}
    /\ RDo("fixed32", 0,
           IF rimpl = "R2" THEN R2_fixed32(rbuf, rpos)
           ELSE IF rimpl = "R3" THEN {RL_fixed32(rbuf, rpos)}
           ELSE {D_decode_fixed32(rbuf, rpos)})

R_fixed64 ==
    /\ rimpl \in {"R2", "R3", "D"}
    /\ RDo("fixed64", 0,
           IF rimpl = "R2" THEN R2_fixed64(rbuf, rpos)
           ELSE IF rimpl = "R3" THEN {RL_fixed64(rbuf, rpos)}
           ELSE {D_decode_fixed64(rbuf, rpos)})

R_bytes ==
    /\ rimpl \in RImpls
    /\ RDo("bytes", 0,
           IF rimpl = "R1" THEN {R1_bytes(rbuf, rpos)}
           ELSE IF rimpl = "R2" THEN R2_bytes(rbuf, rpos)
           ELSE IF rimpl = "R3" THEN {RL_bytes(rbuf, rpos)}
           ELSE {D_decode_bytes(rbuf, rpos)})

R_string ==
    /\ rimpl \in RImpls
    /\ RDo("string", 0,
           IF rimpl = "R1" THEN {R1_string(rbuf, rpos)}
           ELSE IF rimpl = "R2" THEN R2_string(rbuf, rpos)
           ELSE IF rimpl = "R3" THEN {RL_string(rbuf, rpos)}
           ELSE {D_decode_string(rbuf, rpos)})

R_skip ==
    /\ rimpl \in RImpls
    /\ \E n \in SkipCounts :
        RDo("skip", n,
            IF rimpl = "R1" THEN {R1_skip(rbuf, rpos, n)}
            ELSE IF rimpl = "R2" THEN {R2_skip(rbuf, rpos, n)}
            ELSE IF rimpl = "R3" THEN {RL_skip(rbuf, rpos, n)}
            ELSE {D_skip(rbuf, rpos, n)})

\* Reader::skip_type, Decoder::skip_field.
R_skip_type ==
    /\ rimpl \in {"R2", "R3", "D"}
    /\ \E wire_type \in WireTypes :
        RDo("skip_type", wire_type,
            IF rimpl = "R2" THEN R2_skip_type(rbuf, rpos, wire_type)
            ELSE IF rimpl = "R3" THEN {RL_skip_type(rbuf, rpos, wire_type)}
            ELSE {D_skip_field(rbuf, rpos, wire_type)})

R_reset ==
    /\ rimpl \in {"R1", "R2", "D"}
    /\ RDo("reset", 0,
           IF rimpl = "R1" THEN {R1_reset(rbuf, rpos)}
           ELSE IF rimpl = "R2" THEN R2_reset(rbuf, rpos)
           ELSE {D_reset(rbuf, rpos)})

RNext ==
    \/ R_uint32
    \/ R_uint64
    \/ R_sint64
    \/ R_int32
    \/ R_bool
    \/ R_tag
    \/ R_fixed32
    \/ R_fixed64
    \/ R_bytes
    \/ R_string
    \/ R_skip
    \/ R_skip_type
    \/ R_reset

ReaderSpec == RInit /\ [][RNext]_vars

-----------------------------------------------------------------------------
(* Properties of the readers (ReaderSpec).                                 *)

Encodings(s) == {WA_string(<< >>, s), WB_string(<< >>, s), WL_string(<< >>, s)}

Hello == <<104, 101, 108, 108, 111>>

\* C6: a reader constructed over the bytes Writer.string(s) produced, for a
\* valid UTF-8 string s, returns exactly s from string(), and its cursor
\* advances by the size of varint(|s|) plus |s|, which is the end of the
\* buffer; for "hello" the bytes are 5 'h' 'e' 'l' 'l' 'o' and the cursor
\* ends at 6.
C6_StringRoundTrip ==
    \A s \in RStrs :
        (rbuf \in Encodings(s) /\ rret.op = "string" /\ rret.pre = 0) =>
            /\ Utf8Valid(s)
            /\ rret.st = "ok"
            /\ rret.val = s
            /\ rpos = VarintSize(Len(s)) + Len(s)
            /\ rpos = Len(rbuf)
            /\ (s = Hello => rbuf = <<5>> \o Hello /\ rpos = 6)

C6_Witness ==
    /\ rimpl = "R3"
    /\ rbuf = WL_string(<< >>, Text(128))
    /\ rret.op = "string"
    /\ rret.st = "ok"
    /\ rret.val = Text(128)
    /\ rpos = 130

\* C7: after every call on every reader, successful or failing, the cursor
\* is between 0 and the length of the buffer, and the call read no byte at
\* an index at or beyond the length.
C7_CursorInBounds ==
    rimpl # "none" =>
        /\ 0 <= rpos
        /\ rpos <= Len(rbuf)
        /\ rret.hi <= Len(rbuf)

C7_Witness ==
    /\ rret.op = "uint32"
    /\ rret.st # "ok"
    /\ rret.pre < rpos
    /\ rpos = Len(rbuf)
    /\ rret.hi = Len(rbuf)

\* C8: no call other than reset() decreases the cursor, whether it succeeds
\* or fails.
C8_NoBackward == [][rret'.op # "reset" => rpos' >= rpos]_vars

C8_Witness ==
    /\ rimpl = "R2"
    /\ rret.op = "fixed32"
    /\ rret.st # "ok"
    /\ rret.pre > 0
    /\ rret.pre < Len(rbuf)
    /\ rpos = Len(rbuf)

\* C9: skipping by wire type over a complete field advances the cursor by
\* the encoded size of the field: 8 for wire type 1, 4 for wire type 5, the
\* length of the varint for wire type 0, and for wire type 2 over a section
\* of n bytes the size of varint(n) plus n, whatever the n bytes are.
C9_SkipAdvancesFieldSize ==
    rret.op = "skip_type" =>
        LET p == rret.pre
            rest == Len(rbuf) - p
            Skipped(size) == rret.st = "ok" /\ rpos = p + size
        IN  /\ (rret.arg = 1 /\ rest >= 8) => Skipped(8)
            /\ (rret.arg = 5 /\ rest >= 4) => Skipped(4)
            /\ rret.arg = 0 =>
                   \A k \in 1..10 :
                       (/\ k <= rest
                        /\ \A j \in 1..(k - 1) : rbuf[p + j] >= 128
                        /\ rbuf[p + k] < 128) => Skipped(k)
            /\ rret.arg = 2 =>
                   \A n \in 0..rest :
                       (/\ VarintSize(n) + n <= rest
                        /\ SubSeq(rbuf, p + 1, p + VarintSize(n)) = VarintRef(n))
                           => Skipped(VarintSize(n) + n)

C9_Witness ==
    /\ rimpl = "D"
    /\ rbuf = WA_string(<< >>, Text(128))
    /\ rret.op = "skip_type"
    /\ rret.arg = 2
    /\ rret.pre = 0
    /\ rret.st = "ok"
    /\ rpos = 130

InvalidWireType(st) == st \in {"Invalid wire type", "invalid wire type"}

\* C10: skipping by wire type handles the wire types 0, 1, 2, 3 (start
\* group) and 5, and fails with InvalidWireType for every other value; when
\* it fails with InvalidWireType the cursor is where it was.  A group that
\* holds nothing but its end-group tag is skipped by passing that tag.
C10_WireTypes ==
    rret.op = "skip_type" =>
        /\ rret.arg \notin {0, 1, 2, 3, 5} => InvalidWireType(rret.st)
        /\ rret.arg \in {0, 1, 2, 5} => ~InvalidWireType(rret.st)
        /\ (rret.arg = 3 /\ rret.pre < Len(rbuf) /\ rbuf[rret.pre + 1] = 12) =>
               (rret.st = "ok" /\ rpos = rret.pre + 1)
        /\ InvalidWireType(rret.st) => rpos = rret.pre

BufferUnderflow(st) ==
    st \in {"Buffer underflow", "Cannot skip beyond buffer end", "index out of range",
            "Unexpected end of buffer"}

\* C11: skip(n) succeeds exactly when pos + n <= len, and then the cursor
\* has advanced by exactly n; otherwise it fails with BufferUnderflow and the
\* cursor is where it was.
C11_SkipExact ==
    rret.op = "skip" =>
        IF rret.pre + rret.arg <= Len(rbuf)
        THEN rret.st = "ok" /\ rpos = rret.pre + rret.arg
        ELSE BufferUnderflow(rret.st) /\ rpos = rret.pre

C11_Witness ==
    /\ rret.op = "skip"
    /\ rret.arg = 4
    /\ rret.pre > 0
    /\ rret.pre + 4 = Len(rbuf) + 1
    /\ BufferUnderflow(rret.st)
    /\ rpos = rret.pre

\* C12: reset() sets the cursor to 0 and changes nothing else, also after a
\* failed read: the reader is then in the state of a reader freshly
\* constructed over the same bytes (same implementation, same buffer, cursor
\* 0), so the same reads return the same results.
C12_ResetFrame ==
    [][rret'.op = "reset" =>
          /\ rpos' = 0
          /\ rbuf' = rbuf
          /\ rimpl' = rimpl
          /\ rret'.st = "ok"]_vars

C12_Witness ==
    /\ rret.op = "reset"
    /\ rret.pre = Len(rbuf)
    /\ rret.pre > 0
    /\ rpos = 0

InvalidUtf8(st) == st \in {"Invalid UTF-8", "invalid utf8"}

\* C13: string() fails atomically: when the length varint, the bounds test
\* or the UTF-8 validation fails it returns an error and no text, the error
\* is InvalidUtf8 when the bytes under the length are not UTF-8, and the
\* cursor is where it was before the call.
C13_StringAtomic ==
    (rret.op = "string" /\ rret.st # "ok") =>
        /\ rret.val = << >>
        /\ rpos = rret.pre

-----------------------------------------------------------------------------
(* src/src/pool.rs: the size classes.                                      *)

\* usize::next_power_of_two: the smallest power of two >= x, from p up.
RECURSIVE NextPowerOfTwoFrom(_, _)
NextPowerOfTwoFrom(x, p) == IF p >= x THEN p ELSE NextPowerOfTwoFrom(x, 2 * p)

NextPowerOfTwo(x) == NextPowerOfTwoFrom(x, 1)

\* usize::trailing_zeros of a number that is not 0.
RECURSIVE TrailingZeros(_)
TrailingZeros(x) == IF x % 2 = 1 THEN 0 ELSE 1 + TrailingZeros(x \div 2)

SaturatingSub(a, b) == IF a > b THEN a - b ELSE 0

Min(a, b) == IF a < b THEN a ELSE b

P_size_class(size) ==
    IF size = 0 THEN 0
    ELSE LET bits == TrailingZeros(NextPowerOfTwo(size - 1))
             class == SaturatingSub(bits, 6)
         IN  Min(class, 9)

P_class_to_size(class) == 64 * 2 ^ Min(class, 9)

\* The largest request the size classes are made for.
MaxRequest == 32768

\* The size to ask a class for is drawn at the start.
SCInit ==
    /\ WIdle
    /\ RIdle
    /\ PIdle
    /\ CDIdle
    /\ PPIdle
    /\ LPIdle
    /\ \E size \in 0..MaxRequest : sc = [NoSizeCall EXCEPT !.size = size]

SC_size_class ==
    /\ sc.called = "none"
    /\ sc' = [sc EXCEPT !.class = P_size_class(sc.size), !.called = "size_class"]
    /\ UNCHANGED notsc

\* class_to_size of the class size_class gave, as acquire() calls it.
SC_class_to_size ==
    /\ sc.called = "size_class"
    /\ sc' = [sc EXCEPT !.actual = P_class_to_size(sc.class), !.called = "class_to_size"]
    /\ UNCHANGED notsc

SCNext ==
    \/ SC_size_class
    \/ SC_class_to_size

SizeClassSpec == SCInit /\ [][SCNext]_vars

\* C15: size_class(n) is the index k of the smallest size class whose size
\* 64 * 2^k (k = 0..9) is at least n, for every n from 0 to 32768, so that
\* class_to_size(size_class(n)) >= n.
C15_SmallestClass ==
    (sc.called # "none" /\ sc.size <= 32768) =>
        /\ sc.class \in 0..9
        /\ 64 * 2 ^ sc.class >= sc.size
        /\ sc.class > 0 => 64 * 2 ^ (sc.class - 1) < sc.size
        /\ sc.called = "class_to_size" => sc.actual >= sc.size

-----------------------------------------------------------------------------
(* src/src/pool.rs: BufferPool::acquire, BufferPool::metrics and the Drop  *)
(* of PooledBuffer, run by several threads.  A step is what a thread does  *)
(* from one lock operation to the next.                                    *)
(*                                                                         *)
(*   pc            the thread is about to / holds                          *)
(*   acq_metrics   lock metrics                                            *)
(*   acq_pool      lock its class's pool; holds metrics                    *)
(*   acq_hit       drop(metrics); holds metrics and the pool               *)
(*   acq_ret       return the PooledBuffer; holds the pool                 *)
(*   acq_miss      count the miss and allocate; holds metrics              *)
(*   drop_pool     lock its class's pool                                   *)
(*   drop_metrics  lock metrics; holds the pool                            *)

\* min_size of the acquires: 64 and 65 fall into one class, 200 into another.
PSizes == {64, 65, 200}

\* max_pool_size of the pools.
PMaxSizes == {0, 1, 2}

\* PooledBuffers one thread holds at a time.
MaxHeld == 2

\* acquire() calls in one behaviour.
MaxAcquires == 3

\* 2^64 - 1, what a usize at 0 wraps to when 1 is subtracted in a release
\* build (a debug build panics); adding 1 gives 0 again.
UsizeWrapped == -1

\* P_count_hit with a fault: current_pooled is not decremented.
P_count_hit_keeps_pooled(metrics) == [metrics EXCEPT !.hits = @ + 1]

\* metrics.hits += 1; metrics.current_pooled -= 1
P_count_hit(metrics) ==
    [metrics EXCEPT !.hits = @ + 1,
                    !.current_pooled = IF @ = 0 THEN UsizeWrapped ELSE @ - 1]

\* P_has_room with a fault: one buffer too many.
P_has_room_one_more(pool, max_pool_size) == Len(pool) <= max_pool_size

\* pool.len() < pool_ref.max_pool_size
P_has_room(pool, max_pool_size) == Len(pool) < max_pool_size

\* P_clear with a fault: the buffer keeps its length.
P_clear_nothing(buffer) == buffer

\* self.buffer.clear()
P_clear(buffer) == [buffer EXCEPT !.len = 0]

\* Vec::pop with a fault: the buffer returned stays in the list.
P_pop_copies(pool) == [pool |-> pool, buffer |-> Last(pool)]

\* pool.lock().pop() on a list that is not empty: the buffer is moved out.
P_pop(pool) == [pool |-> Front(pool), buffer |-> Last(pool)]

Handle(buffer, class, min_size, hit) ==
    [buffer |-> buffer, class |-> class, min_size |-> min_size, hit |-> hit]

OthersIdle(t) == \A u \in PThreads \ {t} : pthr[u].pc = "idle"

LastThree(s) == IF Len(s) > 3 THEN SubSeq(s, Len(s) - 2, Len(s)) ELSE s

\* An operation thread t completed and the metrics after it; hit says that
\* the acquire was a hit, or that the release put the buffer into the pool.
Done(op, t, m, hit) ==
    <<[op |-> op, size |-> pthr[t].min_size, class |-> pthr[t].size_class,
       latest |-> pthr[t].latest, hit |-> hit, m |-> m]>>

\* psolo after a step of thread t that completed the operations recs.
Solo(t, recs) ==
    LET base == IF psolo.owner = t /\ OthersIdle(t) THEN psolo.ops ELSE << >>
    IN  psolo' = [owner |-> t, ops |-> LastThree(base \o recs)]

PInit ==
    /\ WIdle
    /\ RIdle
    /\ SCIdle
    /\ CDIdle
    /\ PPIdle
    /\ LPIdle
    /\ \E max_pool_size \in PMaxSizes : PNew(max_pool_size)

\* pool.acquire(min_size) is called.
P_acquire_call(t) ==
    /\ pthr[t].pc = "idle"
    /\ pmetrics.total_acquired + Cardinality({u \in PThreads : pthr[u].pc = "acq_metrics"})
           < MaxAcquires
    /\ Len(phandles[t]) < MaxHeld
    /\ \E min_size \in PSizes :
           pthr' = [pthr EXCEPT ![t] = [pc |-> "acq_metrics", min_size |-> min_size,
                                        size_class |-> P_size_class(min_size),
                                        buffer |-> NoVec, latest |-> FALSE]]
    /\ Solo(t, << >>)
    /\ UNCHANGED <<ppools, pmax, pmetrics, pmlock, pplock, phandles>>
    /\ UNCHANGED notp

\* let mut metrics = self.metrics.lock(); metrics.total_acquired += 1
P_acquire_lock_metrics(t) ==
    /\ pthr[t].pc = "acq_metrics"
    /\ pmlock = Free
    /\ pmlock' = t
    /\ pmetrics' = [pmetrics EXCEPT !.total_acquired = @ + 1]
    /\ pthr' = [pthr EXCEPT ![t].pc = "acq_pool"]
    /\ Solo(t, << >>)
    /\ UNCHANGED <<ppools, pmax, pplock, phandles>>
    /\ UNCHANGED notp

\* pool.lock().pop() gives a buffer: a hit.  The guard of the pool lives to
\* the end of the if let.
P_acquire_hit(t) ==
    LET c == pthr[t].size_class
    IN  /\ pthr[t].pc = "acq_pool"
        /\ pplock[c] = Free
        /\ ppools[c] # << >>
        /\ pplock' = [pplock EXCEPT ![c] = t]
        /\ ppools' = [ppools EXCEPT ![c] = P_pop(@).pool]
        /\ pmetrics' = P_count_hit(pmetrics)
        /\ pthr' = [pthr EXCEPT ![t].pc = "acq_hit", ![t].buffer = P_pop(ppools[c]).buffer]
        /\ Solo(t, << >>)
        /\ UNCHANGED <<pmax, pmlock, phandles>>
        /\ UNCHANGED notp

\* pool.lock().pop() gives None; the pool is unlocked again.
P_acquire_none(t) ==
    LET c == pthr[t].size_class
    IN  /\ pthr[t].pc = "acq_pool"
        /\ pplock[c] = Free
        /\ ppools[c] = << >>
        /\ pthr' = [pthr EXCEPT ![t].pc = "acq_miss"]
        /\ Solo(t, << >>)
        /\ UNCHANGED <<ppools, pmax, pmetrics, pmlock, pplock, phandles>>
        /\ UNCHANGED notp

\* drop(metrics) of a hit.
P_acquire_hit_unlock(t) ==
    /\ pthr[t].pc = "acq_hit"
    /\ pmlock' = Free
    /\ pthr' = [pthr EXCEPT ![t].pc = "acq_ret"]
    /\ Solo(t, << >>)
    /\ UNCHANGED <<ppools, pmax, pmetrics, pplock, phandles>>
    /\ UNCHANGED notp

\* return PooledBuffer { buffer, .. } of a hit; the pool is unlocked.
P_acquire_hit_return(t) ==
    LET c == pthr[t].size_class
    IN  /\ pthr[t].pc = "acq_ret"
        /\ pplock' = [pplock EXCEPT ![c] = Free]
        /\ phandles' = [phandles EXCEPT ![t] =
                            Append(@, Handle(pthr[t].buffer, c, pthr[t].min_size, TRUE))]
        /\ pthr' = [pthr EXCEPT ![t] = IdleThread]
        /\ Solo(t, Done("acquire", t, pmetrics, TRUE))
        /\ UNCHANGED <<ppools, pmax, pmetrics, pmlock>>
        /\ UNCHANGED notp

\* metrics.misses += 1; drop(metrics); vec![0u8; actual_size]
P_acquire_miss(t) ==
    LET c == pthr[t].size_class
        actual_size == P_class_to_size(c)
        m == [pmetrics EXCEPT !.misses = @ + 1]
    IN  /\ pthr[t].pc = "acq_miss"
        /\ pmetrics' = m
        /\ pmlock' = Free
        /\ phandles' = [phandles EXCEPT ![t] =
                            Append(@, Handle([Vec(actual_size, actual_size)
                                                  EXCEPT !.id = m.misses], c,
                                             pthr[t].min_size, FALSE))]
        /\ pthr' = [pthr EXCEPT ![t] = IdleThread]
        /\ Solo(t, Done("acquire", t, m, FALSE))
        /\ UNCHANGED <<ppools, pmax, pplock>>
        /\ UNCHANGED notp

\* pool.metrics(); a thread does not call it twice in a row.
P_metrics(t) ==
    /\ pthr[t].pc = "idle"
    /\ pmlock = Free
    /\ IF psolo.ops = << >> THEN TRUE
       ELSE Last(psolo.ops).op # "metrics" \/ psolo.owner # t
    /\ Solo(t, Done("metrics", t, pmetrics, FALSE))
    /\ UNCHANGED <<ppools, pmax, pmetrics, pmlock, pplock, pthr, phandles>>
    /\ UNCHANGED notp

\* A PooledBuffer of thread t goes out of scope.
P_drop_call(t) ==
    /\ pthr[t].pc = "idle"
    /\ \E i \in 1..Len(phandles[t]) :
           LET h == phandles[t][i]
           IN  /\ pthr' = [pthr EXCEPT ![t] = [pc |-> "drop_pool", min_size |-> h.min_size,
                                               size_class |-> h.class, buffer |-> h.buffer,
                                               latest |-> i = Len(phandles[t])]]
               /\ phandles' = [phandles EXCEPT ![t] =
                                   SubSeq(@, 1, i - 1) \o SubSeq(@, i + 1, Len(@))]
    /\ Solo(t, << >>)
    /\ UNCHANGED <<ppools, pmax, pmetrics, pmlock, pplock>>
    /\ UNCHANGED notp

\* pool_ref.pool.lock() of drop with the free list full: the buffer is
\* dropped and the pool unlocked.
P_drop_full(t) ==
    LET c == pthr[t].size_class
    IN  /\ pthr[t].pc = "drop_pool"
        /\ pplock[c] = Free
        /\ ~P_has_room(ppools[c], pmax)
        /\ pthr' = [pthr EXCEPT ![t] = IdleThread]
        /\ Solo(t, Done("release", t, pmetrics, FALSE))
        /\ UNCHANGED <<ppools, pmax, pmetrics, pmlock, pplock, phandles>>
        /\ UNCHANGED notp

\* pool_ref.pool.lock() of drop with room in the free list: the buffer is
\* cleared and pushed.
P_drop_push(t) ==
    LET c == pthr[t].size_class
    IN  /\ pthr[t].pc = "drop_pool"
        /\ pplock[c] = Free
        /\ P_has_room(ppools[c], pmax)
        /\ pplock' = [pplock EXCEPT ![c] = t]
        /\ ppools' = [ppools EXCEPT ![c] = Append(@, P_clear(pthr[t].buffer))]
        /\ pthr' = [pthr EXCEPT ![t].pc = "drop_metrics", ![t].buffer = NoVec]
        /\ Solo(t, << >>)
        /\ UNCHANGED <<pmax, pmetrics, pmlock, phandles>>
        /\ UNCHANGED notp

\* pool_ref.metrics.lock(); metrics.current_pooled += 1; both guards go out
\* of scope.
P_drop_count(t) ==
    LET c == pthr[t].size_class
        m == [pmetrics EXCEPT !.current_pooled = @ + 1]
    IN  /\ pthr[t].pc = "drop_metrics"
        /\ pmlock = Free
        /\ pmetrics' = m
        /\ pplock' = [pplock EXCEPT ![c] = Free]
        /\ pthr' = [pthr EXCEPT ![t] = IdleThread]
        /\ Solo(t, Done("release", t, m, TRUE))
        /\ UNCHANGED <<ppools, pmax, pmlock, phandles>>
        /\ UNCHANGED notp

PNext ==
    \E t \in PThreads :
        \/ P_acquire_call(t)
        \/ P_acquire_lock_metrics(t)
        \/ P_acquire_hit(t)
        \/ P_acquire_none(t)
        \/ P_acquire_hit_unlock(t)
        \/ P_acquire_hit_return(t)
        \/ P_acquire_miss(t)
        \/ P_metrics(t)
        \/ P_drop_call(t)
        \/ P_drop_full(t)
        \/ P_drop_push(t)
        \/ P_drop_count(t)

PoolSpec == PInit /\ [][PNext]_vars

-----------------------------------------------------------------------------
(* Properties of the pool (PoolSpec).                                      *)

\* The lock a thread is blocked on: <<"metrics">>, <<"pool", c>> or << >>.
WaitsFor(t) ==
    IF pthr[t].pc \in {"acq_metrics", "drop_metrics"} THEN <<"metrics">>
    ELSE IF pthr[t].pc \in {"acq_pool", "drop_pool"} THEN <<"pool", pthr[t].size_class>>
    ELSE << >>

Holder(lock) == IF lock = <<"metrics">> THEN pmlock ELSE pplock[lock[2]]

\* C14: concurrent acquires and releases never deadlock: in no reachable
\* state do two threads each hold a lock (a size-class lock or the metrics
\* lock) and wait for the lock the other holds.
C14_NoDeadlock ==
    ~ \E t, u \in PThreads :
          /\ t # u
          /\ WaitsFor(t) # << >>
          /\ WaitsFor(u) # << >>
          /\ Holder(WaitsFor(t)) = u
          /\ Holder(WaitsFor(u)) = t

\* C16: the buffer of every handle acquire(min_size) returned holds at
\* least min_size bytes, for min_size <= 32768, whether it was newly
\* allocated (miss) or reused from the free list (hit).
C16_AcquiredLen ==
    \A t \in PThreads :
        \A i \in 1..Len(phandles[t]) :
            phandles[t][i].min_size <= 32768 =>
                phandles[t][i].buffer.len >= phandles[t][i].min_size

\* C17: under every interleaving each size class's free list holds at most
\* max_pool_size buffers, and a release into a class that already holds
\* max_pool_size buffers leaves that free list and current_pooled unchanged.
C17_PoolBounded ==
    /\ [](\A c \in Classes : Len(ppools[c]) <= pmax)
    /\ [][\A t \in PThreads :
              (/\ pthr[t].pc = "drop_pool"
               /\ pthr'[t].pc # "drop_pool"
               /\ Len(ppools[pthr[t].size_class]) >= pmax)
              => (/\ ppools' = ppools
                  /\ pmetrics'.current_pooled = pmetrics.current_pooled)]_vars

C17_Witness ==
    /\ pmax = 2
    /\ psolo.ops # << >>
    /\ Last(psolo.ops).op = "release"
    /\ ~Last(psolo.ops).hit
    /\ Len(ppools[Last(psolo.ops).class]) = 2

\* The last three operations were made by one thread on its own: an
\* acquire, the release of the handle it returned, an acquire of the same
\* size.
AcquireReleaseAcquire ==
    /\ Len(psolo.ops) = 3
    /\ psolo.ops[1].op = "acquire"
    /\ psolo.ops[2].op = "release"
    /\ psolo.ops[2].latest
    /\ psolo.ops[3].op = "acquire"
    /\ psolo.ops[3].size = psolo.ops[1].size

\* C18: with max_pool_size >= 1 and no other thread using the pool,
\* acquire(s), release of that handle, acquire(s) makes the second acquire a
\* hit: hits increases by 1, misses does not change, and current_pooled is
\* back at the value it had before the release.
C18_SecondAcquireHits ==
    (pmax >= 1 /\ AcquireReleaseAcquire) =>
        /\ psolo.ops[3].hit
        /\ psolo.ops[3].m.hits = psolo.ops[2].m.hits + 1
        /\ psolo.ops[3].m.misses = psolo.ops[2].m.misses
        /\ psolo.ops[3].m.current_pooled = psolo.ops[1].m.current_pooled

C18_Witness ==
    /\ pmax = 1
    /\ AcquireReleaseAcquire
    /\ ~psolo.ops[1].hit
    /\ psolo.ops[3].hit
    /\ psolo.ops[3].m.hits = 1
    /\ psolo.ops[3].m.misses = 1

RECURSIVE PooledUpTo(_)
PooledUpTo(c) == IF c < 0 THEN 0 ELSE Len(ppools[c]) + PooledUpTo(c - 1)

\* C19: in every reachable state in which the metrics lock is free, states
\* in the middle of an acquire or release included, current_pooled is the
\* number of buffers in all free lists, hits + misses is total_acquired, and
\* current_pooled has not gone below 0.
C19_MetricsConsistent ==
    pmlock = Free =>
        /\ pmetrics.current_pooled = PooledUpTo(NumClasses - 1)
        /\ pmetrics.hits + pmetrics.misses = pmetrics.total_acquired
        /\ pmetrics.current_pooled >= 0

\* C20: every buffer in a free list has length 0.
C20_PooledCleared ==
    \A c \in Classes :
        \A i \in 1..Len(ppools[c]) : ppools[c][i].len = 0

C20_Witness ==
    /\ Len(ppools[2]) = 2
    /\ ppools[2][1].len = 0
    /\ ppools[2][1].cap = 256
    /\ ppools[0] # << >>


-----------------------------------------------------------------------------
(* The free functions under test.  One byte buffer is fixed at the start:  *)
(* the decoding functions are called on it and a Reader of                 *)
(* src/src/reader.rs reads it.  The encoding functions are called on the   *)
(* values below, and a decoding function may then be called on what the    *)
(* matching encoding function returned.  Writer::tag and                   *)
(* Encoder::encode_tag are called on a writer and an encoder that hold     *)
(* nothing or one byte.                                                    *)

\* The number of calls in a row.
MaxCalls == 2

\* Length of the lists of u32 that are enumerated in full.
MaxBatch == 2

\* The u32 values: where the encoding grows by a byte, and the largest.
U32s == {ToU32(k) : k \in {0, 1, 127, 128, 300, 16384}} \cup {U32Max}

\* The list of the test test_batch_encoding.
TestBatch == <<ToU32(0), ToU32(1), ToU32(127), ToU32(128), ToU32(300), ToU32(16384)>>

U32Lists ==
    SeqsUpTo(U32s, MaxBatch) \cup {TestBatch, <<U32Max, ToU32(2097152), U32Max>>}

\* Field numbers around every limit of encode_field_tag, and 2^29 and
\* 2^31 - 1, which do not fit a tag of 32 bits.
FieldNumbers ==
    {-1, 0, 1, 15, 16, 2047, 2048, 18999, 19000, 19500, 19999, 20000,
     536870911, 536870912, 2147483647}

WireTypeArgs == {-1, 0, 1, 2, 5, 6, 7}

\* What the writer or the encoder holds when tag is called.
TagBuffers == {<< >>, <<42>>}

\* The buffers that are decoded: the short ones over four bytes, the
\* encodings quoted in the documentation, varints of 5, 9, 10 and 11 bytes
\* with and without excess bits, a batch.
CodecBufs ==
    SeqsUpTo({0, 1, 128, 255}, 2)
    \cup {<<127>>, <<172, 2>>, <<10>>, <<8>>, <<0, 1, 172, 2>>,
          <<255, 255, 255, 255, 15>>,
          <<255, 255, 255, 255, 16>>,
          <<128, 128, 128, 128, 127>>,
          <<255, 255, 255, 255, 255>>,
          <<255, 255, 255, 255, 255, 0>>,
          <<128, 128, 128, 128, 128, 0>>,
          <<255, 255, 255, 255, 15, 172, 2>>,
          Fill(8, 128) \o <<0>>,
          Fill(9, 255) \o <<1>>,
          Fill(9, 255) \o <<2>>,
          Fill(9, 128) \o <<0>>,
          Fill(10, 255),
          Fill(10, 128),
          Fill(10, 128) \o <<0>>,
          Fill(11, 255)}

CDInit ==
    /\ WIdle
    /\ PIdle
    /\ SCIdle
    /\ CDIdle
    /\ PPIdle
    /\ LPIdle
    /\ rimpl = "R1"
    /\ rbuf \in CodecBufs
    /\ rpos = 0
    /\ rret = NoCall

CCall(op, arg, r) == [op |-> op, arg |-> arg, st |-> r.st, val |-> r.val]

\* One call and what it returned.
CDo(op, arg, r) ==
    /\ Len(cd) < MaxCalls
    /\ cd' = Append(cd, CCall(op, arg, r))
    /\ UNCHANGED notcd

\* The argument of a decoding function: the buffer, or what the encoding
\* function just returned.
Encoded(op) ==
    IF cd = << >> THEN {rbuf}
    ELSE IF Last(cd).op = op /\ Last(cd).st = "ok" THEN {Last(cd).val}
    ELSE {}

CD_encode_varint ==
    /\ cd = << >>
    /\ \E value \in I64Vals : CDo("encode_varint", value, encode_varint(value))

CD_decode_varint ==
    \E buffer \in Encoded("encode_varint") :
        CDo("decode_varint", buffer, decode_varint(buffer))

CD_encode_zigzag ==
    /\ cd = << >>
    /\ \E value \in I64Vals :
        CDo("encode_zigzag", value, CRes("ok", encode_zigzag(value)))

CD_decode_zigzag ==
    \E value \in (IF cd = << >> THEN I64Vals
                  ELSE IF Last(cd).op = "encode_zigzag" THEN {Last(cd).val}
                  ELSE {}) :
        CDo("decode_zigzag", value, CRes("ok", decode_zigzag(value)))

CD_encode_field_tag ==
    /\ cd = << >>
    /\ \E field_number \in FieldNumbers, wire_type \in WireTypeArgs :
        CDo("encode_field_tag", <<field_number, wire_type>>,
            encode_field_tag(field_number, wire_type))

CD_decode_field_tag ==
    \E buffer \in Encoded("encode_field_tag") :
        CDo("decode_field_tag", buffer, decode_field_tag(buffer))

CD_encode_varint_batch_simd ==
    /\ cd = << >>
    /\ \E values \in U32Lists :
        CDo("encode_varint_batch_simd", values, encode_varint_batch_simd(values))

CD_decode_varint_batch_simd ==
    \E buffer \in Encoded("encode_varint_batch_simd") :
        CDo("decode_varint_batch_simd", buffer, decode_varint_batch_simd(buffer))

\* Writer::tag on a writer that holds `buffer`; the value is what it holds
\* afterwards.
CD_writer_tag ==
    /\ cd = << >>
    /\ \E buffer \in TagBuffers :
       \E field_number \in {f \in FieldNumbers : f >= 0} :
       \E wire_type \in {w \in WireTypeArgs : w >= 0} :
        LET r == WB_tag(buffer, field_number, wire_type)
        IN  CDo("Writer.tag", <<buffer, field_number, wire_type>>, CRes(r.st, r.buffer))

CD_encoder_encode_tag ==
    /\ cd = << >>
    /\ \E buffer \in TagBuffers :
       \E field_number \in {f \in FieldNumbers : f >= 0} :
       \E wire_type \in {w \in WireTypeArgs : w >= 0} :
        LET r == E_encode_tag(buffer, field_number, wire_type)
        IN  CDo("Encoder.encode_tag", <<buffer, field_number, wire_type>>,
                CRes(r.st, r.buffer))

CDNext ==
    \/ CD_encode_varint
    \/ CD_decode_varint
    \/ CD_encode_zigzag
    \/ CD_decode_zigzag
    \/ CD_encode_field_tag
    \/ CD_decode_field_tag
    \/ CD_encode_varint_batch_simd
    \/ CD_decode_varint_batch_simd
    \/ CD_writer_tag
    \/ CD_encoder_encode_tag
    \/ R_uint32

CodecSpec == CDInit /\ [][CDNext]_vars

-----------------------------------------------------------------------------
(* process_u32_batch_parallel of src/src/parallel.rs.  par_chunks splits   *)
(* the values into chunks, the closure of map runs once on every chunk, on *)
(* the threads of the rayon pool and in any order, and collect() puts the  *)
(* results in a Vec in the order of the chunks.                            *)

\* The largest chunk_size that is passed.
MaxChunk == 3

\* Length of the lists of values that are enumerated in full.
MaxPar == 3

ParLists == SeqsUpTo({ToU32(0), ToU32(300), U32Max}, MaxPar) \cup {TestBatch}

\* chunk_size: Option<u32>, None or Some(n).
ChunkSizeArgs == {<< >>} \cup {<<n>> : n \in 0..MaxChunk}

unwrap_or(option, default) == IF option = << >> THEN default ELSE option[1]

\* par_chunks with a fault: the values after the last full chunk are left
\* out, as by par_chunks_exact.
RECURSIVE par_chunks_exact(_, _)
par_chunks_exact(values, chunk_size) ==
    IF Len(values) < chunk_size THEN << >>
    ELSE <<SubSeq(values, 1, chunk_size)>>
         \o par_chunks_exact(SubSeq(values, chunk_size + 1, Len(values)), chunk_size)

\* The chunks of a list that is not empty; the last may be shorter.
RECURSIVE par_chunks(_, _)
par_chunks(values, chunk_size) ==
    IF Len(values) <= chunk_size THEN <<values>>
    ELSE <<SubSeq(values, 1, chunk_size)>>
         \o par_chunks(SubSeq(values, chunk_size + 1, Len(values)), chunk_size)

\* encode_varint_u32 of src/src/parallel.rs
RECURSIVE PP_encode_varint_u32(_, _)
PP_encode_varint_u32(value, output) ==
    LET byte == value[1]
        rest == Shr7(value)
    IN  IF IsZero(rest)
        THEN Append(output, byte)
        ELSE PP_encode_varint_u32(rest, Append(output, byte + 128))

\* The closure of map: one chunk into its own buffer.
RECURSIVE PP_map_chunk(_, _)
PP_map_chunk(chunk, buffer) ==
    IF chunk = << >> THEN buffer
    ELSE PP_map_chunk(Tail(chunk), PP_encode_varint_u32(Head(chunk), buffer))

\* The loop that concatenates the results.
RECURSIVE PP_concatenate(_, _)
PP_concatenate(results, final_buffer) ==
    IF results = << >> THEN final_buffer
    ELSE PP_concatenate(Tail(results), final_buffer \o Head(results))

\* The call up to the parallel iterator: an empty list returns at once, a
\* chunk_size of 0 makes par_chunks panic.
PP_call ==
    /\ par.pc = "idle"
    /\ \E values \in ParLists, option \in ChunkSizeArgs :
        LET chunk_size == unwrap_or(option, 100)
            called == [NoBatch EXCEPT !.values = values, !.chunk_size = option]
        IN  par' = IF values = << >> THEN [called EXCEPT !.pc = "done"]
                   ELSE IF chunk_size = 0
                        THEN [called EXCEPT !.pc = "done", !.st = "panic"]
                   ELSE LET chunks == par_chunks(values, chunk_size)
                        IN  [called EXCEPT !.pc = "map",
                                           !.chunks = chunks,
                                           !.results = [i \in 1..Len(chunks) |-> << >>]]
    /\ UNCHANGED notpar

\* One chunk that has not been mapped yet is mapped.
PP_map ==
    /\ par.pc = "map"
    /\ \E i \in 1..Len(par.chunks) :
        /\ \A j \in 1..Len(par.order) : par.order[j] # i
        /\ par' = [par EXCEPT !.results[i] = PP_map_chunk(par.chunks[i], << >>),
                              !.order = Append(par.order, i)]
    /\ UNCHANGED notpar

\* collect() has every result; they are concatenated and returned.
PP_collect ==
    /\ par.pc = "map"
    /\ Len(par.order) = Len(par.chunks)
    /\ par' = [par EXCEPT !.pc = "done",
                          !.out = PP_concatenate(par.results, << >>)]
    /\ UNCHANGED notpar

ParallelInit ==
    /\ WIdle
    /\ RIdle
    /\ PIdle
    /\ SCIdle
    /\ CDIdle
    /\ PPIdle
    /\ LPIdle

ParallelNext ==
    \/ PP_call
    \/ PP_map
    \/ PP_collect

ParallelSpec == ParallelInit /\ [][ParallelNext]_vars

-----------------------------------------------------------------------------
(* The loops of the readers, one iteration at a step: read_varint32,       *)
(* read_varint64 and skip_type of src/rust/src/reader.rs, and              *)
(* decode_varint_batch_scalar of src/src/simd.rs.  lp.reads counts the     *)
(* bytes read from the buffer, lp.depth the calls of skip_type(3) that are *)
(* on the stack: skip_type calls itself for a nested group, inside its     *)
(* loop, so every open group holds a frame until its end-group tag.        *)

\* The frames of skip_type that the stack of the thread has room for.  The
\* number is scaled down with the buffers: frames of some tens of bytes on a
\* stack of 1 to 8 MiB give about 10^5, for buffers of up to 2^32 bytes.
StackFrames == 3

\* Length of the buffers that are enumerated in full.
MaxLoopLen == 4

\* 0x0B and 0x0C are the start-group and end-group tags of field 1, 0x0A
\* its length-delimited tag, 0x08 its varint tag.
LoopBufs ==
    SeqsUpTo({0, 8, 11, 12, 128}, MaxLoopLen)
    \cup {<<11, 10, 1, 0, 12, 12>>, <<11, 8, 128, 0, 12, 12>>,
          Fill(4, 255) \o <<15>>, Fill(5, 255) \o <<0>>, Fill(9, 255) \o <<1>>,
          Fill(10, 255), Fill(11, 128)}

LoopOps ==
    {<<"read_varint32", 0>>, <<"read_varint64", 0>>, <<"decode_varint_batch", 0>>}
    \cup {<<"skip_type", wire_type>> : wire_type \in {0, 1, 2, 3, 5, 6}}

LPEnd(st) == [lp EXCEPT !.pc = "done", !.st = st]

\* The bytes that skip_type(wire_type) reads from pos, for a wire type that
\* is not 3: those of a varint, or of a length.
LP_field_reads(buf_, pos, wire_type) ==
    IF wire_type = 0 THEN R3_skip_varint(buf_, pos).pos - pos
    ELSE IF wire_type = 2 THEN R3_read_varint32(buf_, pos).pos - pos
    ELSE 0

\* The call is made.  skip_type of a wire type without a loop is done at
\* once.
LP_call ==
    /\ lp.pc = "idle"
    /\ LET s == R3_skip_type(lp.buf, lp.start, lp.arg)
       IN  lp' = IF lp.op # "skip_type" THEN [lp EXCEPT !.pc = lp.op]
                 ELSE IF lp.arg = 0 THEN [lp EXCEPT !.pc = "skip_varint"]
                 ELSE IF lp.arg = 3 THEN [lp EXCEPT !.pc = "skip_group", !.depth = 1]
                 ELSE [lp EXCEPT !.pc = "done", !.st = s.st, !.pos = s.pos,
                                 !.reads = LP_field_reads(lp.buf, lp.start, lp.arg)]
    /\ UNCHANGED notlp

\* One iteration of the loop of read_varint32.
LP_read_varint32 ==
    /\ lp.pc = "read_varint32"
    /\ lp' = IF ~R3_check_bounds(lp.buf, lp.pos, 1) THEN LPEnd("index out of range")
             ELSE LET byte == lp.buf[lp.pos + 1]
                      read == [lp EXCEPT !.pos = @ + 1, !.reads = @ + 1]
                  IN  IF lp.shift = 28
                      THEN IF byte < 128 THEN [read EXCEPT !.pc = "done"]
                           ELSE [read EXCEPT !.pc = "varint32_rest"]
                      ELSE IF byte < 128 THEN [read EXCEPT !.pc = "done"]
                      ELSE [read EXCEPT !.shift = @ + 7]
    /\ UNCHANGED notlp

\* One iteration of `for _ in 0..5` of read_varint32.
LP_varint32_rest ==
    /\ lp.pc = "varint32_rest"
    /\ lp' = IF lp.pos >= Len(lp.buf) THEN LPEnd("index out of range")
             ELSE LET byte == lp.buf[lp.pos + 1]
                      read == [lp EXCEPT !.pos = @ + 1, !.reads = @ + 1, !.k = @ + 1]
                  IN  IF byte < 128 \/ lp.k + 1 = 5 THEN [read EXCEPT !.pc = "done"]
                      ELSE read
    /\ UNCHANGED notlp

\* One iteration of the loop of read_varint64.
LP_read_varint64 ==
    /\ lp.pc = "read_varint64"
    /\ lp' = IF ~R3_check_bounds(lp.buf, lp.pos, 1) THEN LPEnd("index out of range")
             ELSE LET byte == lp.buf[lp.pos + 1]
                      read == [lp EXCEPT !.pos = @ + 1, !.reads = @ + 1]
                  IN  IF lp.shift = 63 \/ byte < 128 \/ lp.shift + 7 > 63
                      THEN [read EXCEPT !.pc = "done"]
                      ELSE [read EXCEPT !.shift = @ + 7]
    /\ UNCHANGED notlp

\* One iteration of the loop of skip_type(0).
LP_skip_varint ==
    /\ lp.pc = "skip_varint"
    /\ lp' = IF ~R3_check_bounds(lp.buf, lp.pos, 1) THEN LPEnd("index out of range")
             ELSE LET byte == lp.buf[lp.pos + 1]
                      read == [lp EXCEPT !.pos = @ + 1, !.reads = @ + 1]
                  IN  IF byte < 128 THEN [read EXCEPT !.pc = "done"] ELSE read
    /\ UNCHANGED notlp

\* One iteration of the loop of skip_type(3) in the innermost call: a tag
\* is read; an end-group tag returns to the caller's loop, a start-group tag
\* calls skip_type(3), which takes a frame more, and any other field is
\* skipped.  Without room for the frame the thread overflows its stack and
\* the process is ended.
LP_skip_group ==
    /\ lp.pc = "skip_group"
    /\ LET t == R3_read_varint32(lp.buf, lp.pos)
           wire_type == t.val[1] % 8
           s == R3_skip_type(lp.buf, t.pos, wire_type)
           tag == [lp EXCEPT !.pos = t.pos, !.reads = @ + (t.pos - lp.pos)]
       IN  lp' = IF t.st # "ok" THEN [tag EXCEPT !.pc = "done", !.st = t.st]
                 ELSE IF wire_type = 4
                      THEN IF lp.depth = 1 THEN [tag EXCEPT !.pc = "done", !.depth = 0]
                           ELSE [tag EXCEPT !.depth = @ - 1]
                 ELSE IF wire_type = 3
                      THEN IF lp.depth + 1 > StackFrames
                           THEN [tag EXCEPT !.pc = "done", !.st = "stack overflow"]
                           ELSE [tag EXCEPT !.depth = @ + 1]
                 ELSE LET field == [tag EXCEPT !.pos = s.pos,
                                               !.reads = @ + LP_field_reads(lp.buf, t.pos, wire_type)]
                      IN  IF s.st # "ok" THEN [field EXCEPT !.pc = "done", !.st = s.st]
                          ELSE field
    /\ UNCHANGED notlp

\* One iteration of the while loop of decode_varint_batch_scalar.
LP_decode_varint_batch ==
    /\ lp.pc = "decode_varint_batch"
    /\ lp' = IF ~(lp.pos < Len(lp.buf)) THEN LPEnd("ok")
             ELSE LET rest == SubSeq(lp.buf, lp.pos + 1, Len(lp.buf))
                      r == decode_varint_u32(rest)
                  IN  IF r.st = "ok"
                      THEN [lp EXCEPT !.pos = @ + r.val[2], !.reads = @ + r.val[2]]
                      ELSE [lp EXCEPT !.pc = "done", !.st = r.st,
                                      !.reads = @ + Min(5, Len(rest))]
    /\ UNCHANGED notlp

\* The buffer, the position in it and the call to make are drawn at the
\* start.
LoopInit ==
    /\ WIdle
    /\ RIdle
    /\ PIdle
    /\ SCIdle
    /\ CDIdle
    /\ PPIdle
    /\ \E buf_ \in LoopBufs, call \in LoopOps, start \in {0, 1} :
        /\ start <= Len(buf_)
        /\ lp = [NoLoop EXCEPT !.op = call[1], !.arg = call[2], !.buf = buf_,
                               !.start = start, !.pos = start]

LoopNext ==
    \/ LP_call
    \/ LP_read_varint32
    \/ LP_varint32_rest
    \/ LP_read_varint64
    \/ LP_skip_varint
    \/ LP_skip_group
    \/ LP_decode_varint_batch

LoopSpec == LoopInit /\ [][LoopNext]_vars

\* The thread that runs the call is not stopped: a step that can be taken
\* is taken.
LoopFairSpec == LoopSpec /\ WF_vars(LoopNext)

-----------------------------------------------------------------------------
(* Properties of the varint, zigzag and tag functions (CodecSpec, and      *)
(* ReaderSpec for the calls of the readers).                               *)

\* The shortest varint of a number given by its digits.
VarintOf(d) ==
    LET nz == {i \in 1..Len(d) : d[i] # 0}
        n == IF nz = {} THEN 1 ELSE CHOOSE i \in nz : \A j \in nz : j <= i
    IN  [i \in 1..n |-> d[i] + (IF i < n THEN 128 ELSE 0)]

RECURSIVE Flatten(_)
Flatten(seqs) == IF seqs = << >> THEN << >> ELSE Head(seqs) \o Flatten(Tail(seqs))

\* The calls of a function that have been made.
Calls(op) == {i \in 1..Len(cd) : cd[i].op = op}

\* An encoding function was called and then the decoding function on what
\* it returned.
RoundTrip(enc, dec) ==
    /\ Len(cd) = 2
    /\ cd[1].op = enc
    /\ cd[1].st = "ok"
    /\ cd[2].op = dec

\* C21: for every list of u32 values, the empty list and the lists of 0 and
\* of u32::MAX among them, encode_varint_batch_simd returns the
\* concatenation of their varints, and decode_varint_batch_simd of that
\* returns the same list in order; decoding one encoding consumes exactly
\* its bytes.
C21_BatchRoundTrip ==
    /\ \A i \in Calls("encode_varint_batch_simd") :
         /\ cd[i].st = "ok"
         /\ cd[i].val = Flatten([j \in 1..Len(cd[i].arg) |-> VarintOf(cd[i].arg[j])])
         /\ \A j \in 1..Len(cd[i].arg) :
              LET value == cd[i].arg[j]
              IN  decode_varint_u32(encode_varint_u32(value, << >>))
                    = CRes("ok", <<value, Len(VarintOf(value))>>)
    /\ RoundTrip("encode_varint_batch_simd", "decode_varint_batch_simd") =>
         /\ cd[2].arg = cd[1].val
         /\ cd[2].st = "ok"
         /\ cd[2].val = cd[1].arg

C21_Witness ==
    /\ RoundTrip("encode_varint_batch_simd", "decode_varint_batch_simd")
    /\ cd[1].arg = <<U32Max, ToU32(2097152), U32Max>>
    /\ cd[1].val = <<255, 255, 255, 255, 15, 128, 128, 128, 1, 255, 255, 255, 255, 15>>
    /\ cd[2].val = <<U32Max, ToU32(2097152), U32Max>>

\* C22: for every i64 v, the smallest and the largest among them, the bytes
\* that Writer::sint64(v) writes are read back by Reader::sint64 (and by the
\* Reader over ReaderImpl) as v, and the cursor ends at the end of them.
C22_Sint64RoundTrip ==
    \A v \in I64Vals :
        (/\ rimpl \in {"R2", "R3"}
         /\ rret.op = "sint64"
         /\ rret.pre = 0
         /\ rbuf = WB_sint64(<< >>, v)) =>
            /\ rret.st = "ok"
            /\ rret.val = v
            /\ rpos = Len(rbuf)

C22_Witness ==
    /\ rimpl = "R3"
    /\ rbuf = WB_sint64(<< >>, I64Min)
    /\ rbuf = Fill(9, 255) \o <<1>>
    /\ rret.op = "sint64"
    /\ rret.st = "ok"
    /\ rret.val = I64Min
    /\ rpos = 10

\* C23: encode_varint(v) returns 1 to 10 bytes; all but the last have the
\* high bit set and the last has it clear; their low 7 bits are the digits
\* of v; the last byte is 0 only for v = 0; 0, 127, 128 and 300 give [0x00],
\* [0x7F], [0x80,0x01] and [0xAC,0x02].
C23_CanonicalVarint ==
    \A i \in Calls("encode_varint") :
        LET v == cd[i].arg
            b == cd[i].val
        IN  /\ cd[i].st = "ok"
            /\ Len(b) >= 1
            /\ Len(b) <= 10
            /\ \A j \in 1..(Len(b) - 1) : b[j] >= 128
            /\ b[Len(b)] < 128
            /\ b[Len(b)] = 0 => IsZero(v)
            /\ PadGroups([j \in 1..Len(b) |-> b[j] % 128], 10) = v
            /\ v = I64(0) => b = <<0>>
            /\ v = I64(127) => b = <<127>>
            /\ v = I64(128) => b = <<128, 1>>
            /\ v = I64(300) => b = <<172, 2>>

C23_Witness ==
    /\ Len(cd) = 1
    /\ cd[1].op = "encode_varint"
    /\ cd[1].arg = I64(-1)
    /\ cd[1].val = Fill(9, 255) \o <<1>>

\* Twice a number of up to 64 bits.
Twice(m) ==
    [i \in 1..10 |->
        IF i = 10 THEN 2 * m[10] + (m[9] \div 64)
        ELSE (2 * m[i] + (IF i > 1 THEN m[i - 1] \div 64 ELSE 0)) % 128]

\* 2v for v >= 0 and -2v - 1 = 2(-v - 1) + 1 for v < 0, where -v - 1 has the
\* bits of v inverted.
ZigZagOf(v) ==
    IF v[10] = 0 THEN Twice(v) ELSE [Twice(Not(v)) EXCEPT ![1] = @ + 1]

SmallInts == {0, 1, 2, 63, 64, 127, 128, 300, 16384, -1, -2, -64, -65, -300}

\* C24: encode_zigzag(v), read as a u64, is 2v for v >= 0 and -2v - 1 for
\* v < 0, so that 0, -1, 1, -2, 2 give 0, 1, 2, 3, 4; and decode_zigzag of
\* encode_zigzag(v) is v, for every i64 v.
C24_ZigZag ==
    /\ \A i \in Calls("encode_zigzag") :
         /\ cd[i].val = ZigZagOf(cd[i].arg)
         /\ \A k \in SmallInts :
              cd[i].arg = I64(k) => cd[i].val = I64(IF k >= 0 THEN 2 * k ELSE -2 * k - 1)
    /\ RoundTrip("encode_zigzag", "decode_zigzag") =>
         /\ cd[2].arg = cd[1].val
         /\ cd[2].val = cd[1].arg

C24_Witness ==
    /\ RoundTrip("encode_zigzag", "decode_zigzag")
    /\ cd[1].arg = I64Min
    /\ cd[1].val = Not(I64(0))
    /\ cd[2].val = I64Min

\* The pairs that make a tag.
ValidTag(field_number, wire_type) ==
    /\ 1 <= field_number
    /\ field_number <= 2 ^ 29 - 1
    /\ ~(19000 <= field_number /\ field_number <= 19999)
    /\ 0 <= wire_type
    /\ wire_type <= 5

\* The digits of 8 * field_number + wire_type.
TagOf(field_number, wire_type) ==
    <<8 * (field_number % 16) + wire_type,
      (field_number \div 16) % 128,
      (field_number \div 2048) % 128,
      (field_number \div 262144) % 128,
      field_number \div 33554432>>

InvalidTag(st) == st \in {"Invalid field number or wire type", "Invalid wire type"}

\* C25: encode_field_tag(field_number, wire_type) returns the varint of
\* (field_number << 3) | wire_type when 1 <= field_number <= 2^29 - 1,
\* field_number is not in 19000..19999 and 0 <= wire_type <= 5; for every
\* other pair, (19500, 0), field number 0 and wire type 6 among them, it
\* fails with the invalid tag error and returns no bytes.
C25_TagValidated ==
    \A i \in Calls("encode_field_tag") :
        LET field_number == cd[i].arg[1]
            wire_type == cd[i].arg[2]
        IN  IF ValidTag(field_number, wire_type)
            THEN /\ cd[i].st = "ok"
                 /\ cd[i].val = VarintOf(TagOf(field_number, wire_type))
            ELSE /\ InvalidTag(cd[i].st)
                 /\ cd[i].val = << >>

C25_Witness ==
    /\ Len(cd) = 1
    /\ cd[1].op = "encode_field_tag"
    /\ cd[1].arg = <<19500, 0>>
    /\ InvalidTag(cd[1].st)

\* C26: decode_field_tag of what encode_field_tag(field_number, wire_type)
\* returned for a valid pair is [field_number, wire_type].
C26_TagRoundTrip ==
    RoundTrip("encode_field_tag", "decode_field_tag") =>
        /\ ValidTag(cd[1].arg[1], cd[1].arg[2])
        /\ cd[2].arg = cd[1].val
        /\ cd[2].st = "ok"
        /\ cd[2].val = <<I64(cd[1].arg[1]), I64(cd[1].arg[2])>>

C26_Witness ==
    /\ RoundTrip("encode_field_tag", "decode_field_tag")
    /\ cd[1].arg = <<536870911, 5>>
    /\ cd[1].val = <<253, 255, 255, 255, 15>>
    /\ cd[2].val = <<I64(536870911), I64(5)>>

\* C27: Writer::tag and Encoder::encode_tag fail with the invalid tag error
\* and append nothing for field_number 0, field_number above 2^29 - 1,
\* field_number in 19000..19999 and wire_type above 5; for every other pair
\* they append the varint of (field_number << 3) | wire_type with every bit
\* of field_number in it.
C27_RawTagValidated ==
    \A i \in Calls("Writer.tag") \cup Calls("Encoder.encode_tag") :
        LET buffer == cd[i].arg[1]
            field_number == cd[i].arg[2]
            wire_type == cd[i].arg[3]
        IN  IF ValidTag(field_number, wire_type)
            THEN /\ cd[i].st = "ok"
                 /\ cd[i].val = buffer \o VarintOf(TagOf(field_number, wire_type))
            ELSE /\ InvalidTag(cd[i].st)
                 /\ cd[i].val = buffer

\* Four bytes with the continuation bit and a fifth above 0x0F, at an offset.
Overflows32(b, at) ==
    /\ Len(b) >= at + 5
    /\ \A j \in 1..4 : b[at + j] >= 128
    /\ b[at + 5] > 15

\* C28: Reader::uint32 of src/src/reader.rs and decode_varint_u32 of
\* src/src/simd.rs, on four bytes with the continuation bit followed by a
\* byte above 0x0F, [0xFF,0xFF,0xFF,0xFF,0xFF] for one, fail with the varint
\* overflow error and return no value.
C28_Varint32Overflow ==
    /\ (rimpl = "R1" /\ rret.op = "uint32" /\ Overflows32(rbuf, rret.pre)) =>
         /\ rret.st = "Varint overflow"
         /\ rret.val = << >>
    /\ \A i \in Calls("decode_varint_batch_simd") :
         Overflows32(cd[i].arg, 0) =>
            /\ decode_varint_u32(cd[i].arg) = CRes("Varint overflow for u32", << >>)
            /\ cd[i].st = "Varint overflow for u32"
            /\ cd[i].val = << >>

C28_Witness ==
    /\ rbuf = Fill(5, 255)
    /\ rret.op = "uint32"
    /\ rret.st = "Varint overflow"
    /\ Len(cd) = 1
    /\ cd[1].op = "decode_varint_batch_simd"
    /\ cd[1].st = "Varint overflow for u32"

\* C29: ReaderImpl::read_varint32, called by Reader::uint32 of
\* src/rust/src/lib.rs, fails when the fifth byte of the varint has a bit
\* set above its low 4 bits: it returns no value with bits dropped.
C29_ReaderImplOverflow ==
    (/\ rimpl = "R3"
     /\ rret.op = "uint32"
     /\ Len(rbuf) >= rret.pre + 5
     /\ \A j \in 1..4 : rbuf[rret.pre + j] >= 128
     /\ rbuf[rret.pre + 5] >= 16) =>
        rret.st # "ok"

\* C30: decode_varint of 10 or more bytes of which the first 10 all have the
\* continuation bit fails with 'Varint too long'.
C30_VarintTooLong ==
    \A i \in Calls("decode_varint") :
        (/\ Len(cd[i].arg) >= 10
         /\ \A j \in 1..10 : cd[i].arg[j] >= 128) =>
            cd[i].st = "Varint too long"

\* The index of the first byte without the continuation bit, 0 if none.
Terminator(b) ==
    IF \E j \in 1..Len(b) : b[j] < 128
    THEN CHOOSE j \in 1..Len(b) : b[j] < 128 /\ \A k \in 1..(j - 1) : b[k] >= 128
    ELSE 0

C32_Varint64Checked ==
    (/\ rret.op \in {"uint64", "sint64"}
     /\ Len(rbuf) >= rret.pre + 10
     /\ \A j \in 1..9 : rbuf[rret.pre + j] >= 128) =>
        LET tenth == rbuf[rret.pre + 10]
        IN  /\ tenth >= 128 => rret.st = "Varint too long"
            /\ tenth \in 2..127 => rret.st # "ok"

\* C39: ReaderImpl.skip_type(0) leaves pos where ReaderImpl.read_varint64
\* would leave it from the same position, and fails exactly when it fails.
C39_SkipVarintAsRead ==
    (rimpl = "R3" /\ rret.op = "skip_type" /\ rret.arg = 0) =>
        LET r == R3_read_varint64(rbuf, rret.pre)
        IN  /\ rpos = r.pos
            /\ rret.st = "ok" <=> r.st = "ok"

\* Where a group that starts at p ends, by counting the open groups: a
\* start-group tag opens one, an end-group tag closes the innermost one, the
\* fields between are skipped by their wire type.  The result is the
\* position after the end-group tag that closes the group open at p, or -1
\* when the buffer ends first, a field cannot be skipped or a tag has the
\* wire type 6 or 7.
RECURSIVE GroupEnd(_, _, _)
GroupEnd(b, p, depth) ==
    LET t == R3_read_varint32(b, p)
        wt == t.val[1] % 8
        s == R3_skip_type(b, t.pos, wt)
    IN  IF t.st # "ok" THEN -1
        ELSE IF wt = 4 THEN IF depth = 0 THEN t.pos ELSE GroupEnd(b, t.pos, depth - 1)
        ELSE IF wt = 3 THEN GroupEnd(b, t.pos, depth + 1)
        ELSE IF wt \in {6, 7} THEN -1
        ELSE IF s.st # "ok" THEN -1
        ELSE GroupEnd(b, s.pos, depth)

\* C34: ReaderImpl.skip_type(3) succeeds exactly when the group open at pos
\* is closed in the buffer, and then pos is immediately after the end-group
\* tag that closes it, every nested group having consumed its own end-group
\* tag; when the buffer ends first or a tag has the wire type 6 or 7 the
\* call fails.
C34_SkipGroup ==
    (rimpl = "R3" /\ rret.op = "skip_type" /\ rret.arg = 3) =>
        LET e == GroupEnd(rbuf, rret.pre, 0)
        IN  IF e = -1 THEN rret.st # "ok"
            ELSE rret.st = "ok" /\ rpos = e

\* A group that holds a nested group with a fixed32 field was skipped whole.
C34_Witness ==
    /\ rimpl = "R3"
    /\ rret.op = "skip_type"
    /\ rret.arg = 3
    /\ rret.pre = 0
    /\ rbuf = <<11, 13, 1, 2, 3, 4, 12, 12>>
    /\ rret.st = "ok"
    /\ rpos = 8

\* C35: finish() called while a fork is open fails with an error in every
\* implementation; it returns no bytes.
C35_FinishOpenFork ==
    (hist # << >> /\ Last(hist).op = "finish") =>
        /\ marksA # << >> => ret.A.st # "ok"
        /\ stackB # << >> => ret.B.st # "ok"
        /\ statesC # << >> => ret.C.st # "ok"

\* C36: finish() after a balanced, well-nested sequence of varint writes,
\* fixed-width writes, string writes, fork and ldelim calls returns the same
\* bytes in the three implementations.
C36_SameBytes ==
    (/\ hist # << >>
     /\ Last(hist).op = "finish"
     /\ WellNested(Front(hist))
     /\ \A i \in 1..(Len(hist) - 1) : hist[i].op # "bytes") =>
        /\ \A X \in Impls : ret[X].st = "ok"
        /\ ret.A.out = ret.B.out
        /\ ret.B.out = ret.C.out

\* fork, fixed32, fork, uint32, ldelim, ldelim, finish: the three return the
\* outer length 6, the four bytes, the inner length 1 and the varint.
C36_Witness ==
    /\ Len(hist) = 7
    /\ hist[1].op = "fork" /\ hist[2].op = "fixed32" /\ hist[3].op = "fork"
    /\ hist[4].op = "uint32" /\ hist[5].op = "ldelim" /\ hist[6].op = "ldelim"
    /\ hist[7].op = "finish"
    /\ \A X \in Impls : ret[X].out = <<6, 120, 86, 52, 0, 1, 1>>

\* C37: for every i32 v, the smallest and the largest among them,
\* Writer::int32(v) appends 1 to 5 bytes when v >= 0 and exactly 10 bytes,
\* the varint of v sign-extended to 64 bits with the last byte 0x01, when
\* v < 0, in both writers; Reader::int32 over those bytes returns v and the
\* cursor ends at the number of bytes written.
C37_Int32RoundTrip ==
    \A v \in I32Vals :
        LET w == WL_int32(<< >>, v)
        IN  (/\ rimpl = "R3"
             /\ rret.op = "int32"
             /\ rret.pre = 0
             /\ rbuf = w) =>
                /\ WB_int32(<< >>, v) = w
                /\ v >= 0 => Len(w) \in 1..5
                /\ v < 0 => (Len(w) = 10 /\ w[10] = 1 /\ w = VarintOf(I32AsU64(v)))
                /\ rret.st = "ok"
                /\ rret.val = <<v>>
                /\ rpos = Len(w)

\* int32(-2) was written as ten bytes and read back.
C37_Witness ==
    /\ rimpl = "R3"
    /\ rbuf = WL_int32(<< >>, -2)
    /\ rbuf = <<254>> \o Fill(8, 255) \o <<1>>
    /\ rret.op = "int32"
    /\ rret.st = "ok"
    /\ rret.val = <<-2>>
    /\ rpos = 10

\* C33: process_u32_batch_parallel(values, chunk_size) with chunk_size >= 1
\* or absent returns the varints of the values concatenated in input order,
\* the bytes that encode_varint_batch_simd(values) returns, whatever the
\* order in which the chunks were mapped.
C33_ParallelInOrder ==
    (par.pc = "done" /\ (par.chunk_size = << >> \/ par.chunk_size[1] >= 1)) =>
        /\ par.st = "ok"
        /\ par.out = Flatten([i \in 1..Len(par.values) |-> VarintOf(par.values[i])])
        /\ par.out = encode_varint_batch_simd(par.values).val

\* Three chunks of one value were mapped last, first, second.
C33_Witness ==
    /\ par.pc = "done"
    /\ par.values = <<U32Max, ToU32(0), ToU32(300)>>
    /\ par.chunk_size = <<1>>
    /\ par.order = <<3, 1, 2>>
    /\ par.out = <<255, 255, 255, 255, 15, 0, 172, 2>>

\* Where the buffers are: in a free list, in a PooledBuffer a thread holds,
\* or in a PooledBuffer that acquire() is building or drop() is taking apart.
Pooled == UNION {{<<"pool", c, i>> : i \in 1..Len(ppools[c])} : c \in Classes}

Held == UNION {{<<"handle", t, i>> : i \in 1..Len(phandles[t])} : t \in PThreads}

Moving == {<<"thread", t, 0>> : t \in {u \in PThreads : pthr[u].buffer.id # 0}}

BufferAt(place) ==
    IF place[1] = "pool" THEN ppools[place[2]][place[3]]
    ELSE IF place[1] = "handle" THEN phandles[place[2]][place[3]].buffer
    ELSE pthr[place[2]].buffer

\* C38: under every interleaving a buffer is in one place only, a free
\* list or a PooledBuffer, never in two; and the free list it is in, or
\* that its PooledBuffer releases it to, is the one of the size class it
\* was allocated for.
C38_SingleOwner ==
    /\ \A p, q \in Pooled \cup Held \cup Moving :
           BufferAt(p).id = BufferAt(q).id => p = q
    /\ \A p \in Pooled : BufferAt(p).cap = P_class_to_size(p[2])
    /\ \A t \in PThreads :
           /\ \A i \in 1..Len(phandles[t]) :
                  phandles[t][i].buffer.cap = P_class_to_size(phandles[t][i].class)
           /\ pthr[t].buffer.id # 0 =>
                  pthr[t].buffer.cap = P_class_to_size(pthr[t].size_class)

\* Thread 1 holds a buffer that came out of a free list while thread 2 is
\* in drop() with another.
C38_Witness ==
    /\ \E i \in 1..Len(phandles[1]) :
           phandles[1][i].hit /\ phandles[1][i].buffer.id # 0
    /\ pthr[2].pc = "drop_pool"
    /\ pthr[2].buffer.id # 0

\* A call that was made comes to its end.
LP_Terminates == <>(lp.pc = "done")

\* Every iteration of a loop moves the cursor forward or ends the call.
LP_Progress == [][lp.pc # "idle" => (lp'.pos > lp.pos \/ lp'.pc = "done")]_vars

\* No more bytes are read than there are from the start to the end.
LP_ReadsBounded == lp.reads <= Len(lp.buf) - lp.start

=============================================================================
